---- MODULE Spec2Model ----
(***************************************************************************)
(* Model of the quotation-desktop data-access layer (src/lib/storage.ts),  *)
(* the New / Edit / View quotation pages, the reports page and the         *)
(* dashboard.  Collections are whole JSON arrays kept per file name; every *)
(* storage operation reads whole arrays and writes whole arrays back.      *)
(* Timestamps (created_at / updated_at) are represented on the settings    *)
(* record only.                                                            *)
(***************************************************************************)
EXTENDS Integers, Sequences, FiniteSets, TLC

VARIABLES
  files,      \* file name -> stored JSON array (sequence of records)
  nextId,     \* number of identifiers handed out by generateId so far
  last,       \* the last completed operation: name, argument, result, store before it
  prev,       \* history: the operation completed before the last one (lookup scenario)
  assigned,   \* history: every quotation number handed to createQuotation so far
  scope,      \* fixed per specification: the identifier budget, whether prev is kept
  page,       \* the React state of the open New / Edit quotation page, if any
  env,        \* the world around the store: the clock, the backend, the failing files
  calls       \* the handleSubmit calls in flight: position and values read so far

vars == <<files, nextId, last, prev, assigned, scope, page, env, calls>>

(***************************************************************************)
(* Bounds of the model.                                                    *)
(***************************************************************************)
MaxIds == 6

MaxBundleIds == 3

MaxLookupIds == 2

MaxFormIds == 4

MaxRates == 3

MaxReportIds == 7

MaxDashboardQuotations == 2

MaxDashboardRates == 2

MaxStoreIds == 5

MaxFaultIds == 2

MaxRaceIds == 6

MaxClock == 3

MaxStatusIds == 4

MaxApprovalQuotations == 3

MaxCrashSubmits == 2

MaxLastWriterIds == 5

MaxFaultyCreateIds == 4

MaxFailedWriteIds == 4

(***************************************************************************)
(* Basic values.                                                           *)
(***************************************************************************)
null == "null"

DataFile ==
  { "quotations.json", "quotation_items.json", "vendors.json", "recipients.json",
    "categories.json", "item_types.json", "exchange_rates.json", "settings.json",
    "vendor_documents.json" }

\* The data directory as initializeDataFiles leaves it: every file an empty array.
EmptyStore == [f \in DataFile |-> <<>>]

\* A running operation: the store as written so far and the files it has written.
Begin(fs) == [files |-> fs, writes |-> <<>>]

\* The environment in which nothing fails: Electron backend, every file readable,
\* well-formed and writable.
SoundEnvironment ==
  [now |-> 0, hasElectronAPI |-> TRUE, unreadable |-> {}, malformed |-> {}, unwritable |-> {}]

\* new Date().toISOString(), as a count of clock ticks.
now == env.now

\* The outcome of a call: a returned value or a thrown exception.
Return(value) == [threw |-> FALSE, value |-> value]

Throw == [threw |-> TRUE, value |-> null]

\* fs.readFileSync followed by JSON.parse (main process), localStorage.getItem
\* followed by JSON.parse (browser): either throws on a failing or malformed file.
ReadAndParse(fs, filename) ==
  IF filename \in env.unreadable \cup env.malformed THEN Throw ELSE Return(fs[filename])

\* Mutation of ipcMain_readData: a file that cannot be read or parsed is answered
\* with the records last stored.
ipcMain_readData_Recovers(fs, filename) == Return(fs[filename])

\* The read-data handler of the main process: its catch answers [].
ipcMain_readData(fs, filename) ==
  LET attempt == ReadAndParse(fs, filename)
  IN IF attempt.threw THEN Return(<<>>) ELSE attempt

\* The write-data handler of the main process: its catch answers {success: false}.
ipcMain_writeData(filename) ==
  IF filename \in env.unwritable THEN Return([success |-> FALSE]) ELSE Return([success |-> TRUE])

\* localStorage.setItem: throws when the quota is exceeded.
localStorage_setItem(filename) ==
  IF filename \in env.unwritable THEN Throw ELSE Return(TRUE)

\* Mutation of readDataOutcome: no try / catch around the two branches.
readDataOutcome_Uncaught(fs, filename) ==
  IF env.hasElectronAPI THEN ipcMain_readData(fs, filename) ELSE ReadAndParse(fs, filename)

\* readData with its try / catch: what it returns or throws.
readDataOutcome(fs, filename) ==
  LET attempt == IF env.hasElectronAPI THEN ipcMain_readData(fs, filename)
                 ELSE ReadAndParse(fs, filename)
  IN IF attempt.threw THEN Return(<<>>) ELSE attempt

\* writeData with its try / catch: what it returns or throws.
writeDataOutcome(filename) ==
  LET attempt == IF env.hasElectronAPI
                 THEN Return(ipcMain_writeData(filename).value.success)
                 ELSE localStorage_setItem(filename)
  IN IF attempt.threw THEN Return(FALSE) ELSE attempt

readData(st, filename) == readDataOutcome(st.files, filename).value

\* The callers in storage.ts do not look at the boolean writeData returns.
writeData(st, filename, data) ==
  [files |-> IF writeDataOutcome(filename).value THEN [st.files EXCEPT ![filename] = data]
             ELSE st.files,
   writes |-> Append(st.writes, filename)]

\* What an operation leaves behind: store, files written, return value, ids consumed.
Done(st, ret, ids) == [files |-> st.files, writes |-> st.writes, ret |-> ret, ids |-> ids]

\* crypto.randomUUID(): the k-th identifier ever generated; never repeats.
generateId(k) == "u" \o ToString(k)

(***************************************************************************)
(* Sequence helpers standing for Array.prototype methods.                  *)
(***************************************************************************)
Range(s) == { s[i] : i \in 1..Len(s) }

Ids(s) == { s[i].id : i \in 1..Len(s) }

\* Array.prototype.find: the first element satisfying Test, or null.
Find(s, Test(_)) ==
  LET hits == SelectSeq(s, Test) IN IF hits = <<>> THEN null ELSE Head(hits)

RECURSIVE SumSeq(_)
SumSeq(s) == IF s = <<>> THEN 0 ELSE Head(s) + SumSeq(Tail(s))

(***************************************************************************)
(* String.prototype.toLowerCase over the names the model enters.           *)
(***************************************************************************)
toLowerCase(name) ==
  CASE name \in {"Acme", "ACME", "acme"} -> "acme"
    [] name \in {"Bolt", "bolt"} -> "bolt"
    [] OTHER -> name

(***************************************************************************)
(* Quotation numbers are strings, kept as sequences of characters, so that *)
(* prefix test, parseInt and padStart are computed as the code does.       *)
(***************************************************************************)
Digits == <<"0", "1", "2", "3", "4", "5", "6", "7", "8", "9">>

DigitValue(c) == CHOOSE d \in 0..9 : Digits[d + 1] = c

IsDigit(c) == \E d \in 0..9 : Digits[d + 1] = c

\* String(n) for a non-negative integer n.
RECURSIVE String(_)
String(n) == IF n < 10 THEN <<Digits[n + 1]>> ELSE String(n \div 10) \o <<Digits[(n % 10) + 1]>>

\* s.padStart(width, "0")
RECURSIVE padStart(_, _)
padStart(s, width) == IF Len(s) >= width THEN s ELSE padStart(<<"0">> \o s, width)

\* A JavaScript number that may be NaN.
NaN == [nan |-> TRUE, value |-> 0]

Num(n) == [nan |-> FALSE, value |-> n]

isNaN(x) == x.nan

\* parseInt(s, 10) on a string without sign or blanks: the value of the longest
\* prefix of digits, NaN when there is none.
RECURSIVE ParseDigits(_, _)
ParseDigits(s, acc) ==
  IF s = <<>> \/ ~IsDigit(Head(s)) THEN acc
  ELSE ParseDigits(Tail(s), 10 * acc + DigitValue(Head(s)))

parseInt(s) == IF s = <<>> \/ ~IsDigit(Head(s)) THEN NaN ELSE Num(ParseDigits(s, 0))

startsWith(s, prefix) ==
  Len(s) >= Len(prefix) /\ SubSeq(s, 1, Len(prefix)) = prefix

\* s.replace(prefix, "") for a string that starts with prefix.
replacePrefix(s, prefix) == SubSeq(s, Len(prefix) + 1, Len(s))

\* new Date().getFullYear(), as the digits of the current calendar year.
YearString == <<"2", "0", "2", "6">>

QuotationPrefix == <<"Q", "T", "-">> \o YearString \o <<"-">>

(***************************************************************************)
(* Quotations (storage.ts).                                                *)
(***************************************************************************)
getQuotations(fs) ==
  LET st == Begin(fs)
      quotations == readData(st, "quotations.json")
      items == readData(st, "quotation_items.json")
      vendors == readData(st, "vendors.json")
      documents == readData(st, "vendor_documents.json")
  IN [i \in 1..Len(quotations) |->
        LET q == quotations[i] IN
        [quotation_items |-> SelectSeq(items, LAMBDA it : it.quotation_id = q.id),
         vendor |-> LET hits == SelectSeq(vendors, LAMBDA v : v.id = q.vendor_id)
                    IN IF hits = <<>> THEN <<>> ELSE <<Head(hits)>>,
         vendor_documents |-> SelectSeq(documents, LAMBDA d : d.quotation_id = q.id)] @@ q]

getQuotation(fs, id) == Find(getQuotations(fs), LAMBDA q : q.id = id)

\* k is the number of identifiers generated before the call.
createQuotation(fs, k, quotation, items) ==
  LET st0 == Begin(fs)
      quotations == readData(st0, "quotations.json")
      existingItems == readData(st0, "quotation_items.json")
      newQuotation == [id |-> generateId(k + 1)] @@ quotation
      newItems == [i \in 1..Len(items) |->
                     [id |-> generateId(k + 1 + i), quotation_id |-> newQuotation.id] @@ items[i]]
      st1 == writeData(st0, "quotations.json", Append(quotations, newQuotation))
      st2 == writeData(st1, "quotation_items.json", existingItems \o newItems)
  IN Done(st2, newQuotation, 1 + Len(items))

\* An optional argument: Omitted when the call leaves it out, Given(x) otherwise.
Omitted == <<>>

Given(x) == <<x>>

\* Mutation of updateQuotation: the supplied items are added to the stored ones.
updateQuotation_KeepsOldItems(fs, k, id, updates, items) ==
  LET st0 == Begin(fs)
      quotations == readData(st0, "quotations.json")
      hits == { i \in 1..Len(quotations) : quotations[i].id = id }
  IN IF hits = {} THEN Done(st0, null, 0)
     ELSE
       LET index == CHOOSE i \in hits : \A j \in hits : i <= j
           merged == updates @@ quotations[index]
           st1 == writeData(st0, "quotations.json", [quotations EXCEPT ![index] = merged])
       IN IF items = Omitted THEN Done(st1, merged, 0)
          ELSE
            LET existingItems == readData(st1, "quotation_items.json")
                newItems == [i \in 1..Len(items[1]) |->
                               [id |-> generateId(k + i), quotation_id |-> id] @@ items[1][i]]
                st2 == writeData(st1, "quotation_items.json", existingItems \o newItems)
            IN Done(st2, merged, Len(items[1]))

updateQuotation(fs, k, id, updates, items) ==
  LET st0 == Begin(fs)
      quotations == readData(st0, "quotations.json")
      hits == { i \in 1..Len(quotations) : quotations[i].id = id }
  IN IF hits = {} THEN Done(st0, null, 0)
     ELSE
       LET index == CHOOSE i \in hits : \A j \in hits : i <= j
           merged == updates @@ quotations[index]
           st1 == writeData(st0, "quotations.json", [quotations EXCEPT ![index] = merged])
       IN IF items = Omitted THEN Done(st1, merged, 0)
          ELSE
            LET existingItems == readData(st1, "quotation_items.json")
                filteredItems == SelectSeq(existingItems, LAMBDA it : it.quotation_id # id)
                newItems == [i \in 1..Len(items[1]) |->
                               [id |-> generateId(k + i), quotation_id |-> id] @@ items[1][i]]
                st2 == writeData(st1, "quotation_items.json", filteredItems \o newItems)
            IN Done(st2, merged, Len(items[1]))

\* Mutation of deleteQuotation: the item filter keeps the wrong side.
deleteQuotation_WrongItems(fs, id) ==
  LET st0 == Begin(fs)
      quotations == readData(st0, "quotations.json")
      filtered == SelectSeq(quotations, LAMBDA q : q.id # id)
  IN IF Len(filtered) = Len(quotations) THEN Done(st0, FALSE, 0)
     ELSE
       LET st1 == writeData(st0, "quotations.json", filtered)
           items == readData(st1, "quotation_items.json")
           filteredItems == SelectSeq(items, LAMBDA it : it.quotation_id = id)
           st2 == writeData(st1, "quotation_items.json", filteredItems)
       IN Done(st2, TRUE, 0)

\* Mutation of deleteQuotation: the call answers whether both writes were stored.
deleteQuotation_ReportsFailure(fs, id) ==
  LET st0 == Begin(fs)
      quotations == readData(st0, "quotations.json")
      filtered == SelectSeq(quotations, LAMBDA q : q.id # id)
  IN IF Len(filtered) = Len(quotations) THEN Done(st0, FALSE, 0)
     ELSE
       LET st1 == writeData(st0, "quotations.json", filtered)
           items == readData(st1, "quotation_items.json")
           filteredItems == SelectSeq(items, LAMBDA it : it.quotation_id # id)
           st2 == writeData(st1, "quotation_items.json", filteredItems)
       IN Done(st2, writeDataOutcome("quotations.json").value
                      /\ writeDataOutcome("quotation_items.json").value, 0)

\* Mutation of deleteQuotation: the items of the quotation are left in place.
deleteQuotation_KeepsItems(fs, id) ==
  LET st0 == Begin(fs)
      quotations == readData(st0, "quotations.json")
      filtered == SelectSeq(quotations, LAMBDA q : q.id # id)
  IN IF Len(filtered) = Len(quotations) THEN Done(st0, FALSE, 0)
     ELSE Done(writeData(st0, "quotations.json", filtered), TRUE, 0)

\* Mutation of deleteQuotation: the documents of the quotation are deleted as well.
deleteQuotation_CascadesDocuments(fs, id) ==
  LET st0 == Begin(fs)
      quotations == readData(st0, "quotations.json")
      filtered == SelectSeq(quotations, LAMBDA q : q.id # id)
  IN IF Len(filtered) = Len(quotations) THEN Done(st0, FALSE, 0)
     ELSE
       LET st1 == writeData(st0, "quotations.json", filtered)
           items == readData(st1, "quotation_items.json")
           filteredItems == SelectSeq(items, LAMBDA it : it.quotation_id # id)
           st2 == writeData(st1, "quotation_items.json", filteredItems)
           documents == readData(st2, "vendor_documents.json")
           st3 == writeData(st2, "vendor_documents.json",
                            SelectSeq(documents, LAMBDA d : d.quotation_id # id))
       IN Done(st3, TRUE, 0)

deleteQuotation(fs, id) ==
  LET st0 == Begin(fs)
      quotations == readData(st0, "quotations.json")
      filtered == SelectSeq(quotations, LAMBDA q : q.id # id)
  IN IF Len(filtered) = Len(quotations) THEN Done(st0, FALSE, 0)
     ELSE
       LET st1 == writeData(st0, "quotations.json", filtered)
           items == readData(st1, "quotation_items.json")
           filteredItems == SelectSeq(items, LAMBDA it : it.quotation_id # id)
           st2 == writeData(st1, "quotation_items.json", filteredItems)
       IN Done(st2, TRUE, 0)

(***************************************************************************)
(* Quotation number generation (storage.ts).                               *)
(***************************************************************************)
RECURSIVE MaxSuffix(_, _, _)
\* The forEach of generateQuotationNumber: maxNum after visiting qs.
MaxSuffix(qs, prefix, maxNum) ==
  IF qs = <<>> THEN maxNum
  ELSE LET numStr == replacePrefix(Head(qs).quotation_number, prefix)
           num == parseInt(numStr)
       IN MaxSuffix(Tail(qs), prefix, IF ~isNaN(num) /\ num.value > maxNum THEN num.value ELSE maxNum)

\* Mutation of generateQuotationNumber: maxNum is never raised above 0.
generateQuotationNumber_MaxNeverRaised(fs) ==
  LET prefix == QuotationPrefix
      maxNum == 0
  IN prefix \o padStart(String(maxNum + 1), 4)

\* Mutation of generateQuotationNumber: numbers by counting the year's quotations.
generateQuotationNumber_ByCount(fs) ==
  LET quotations == readData(Begin(fs), "quotations.json")
      prefix == QuotationPrefix
      yearQuotations == SelectSeq(quotations, LAMBDA q : startsWith(q.quotation_number, prefix))
  IN prefix \o padStart(String(Len(yearQuotations) + 1), 4)

generateQuotationNumber(fs) ==
  LET quotations == readData(Begin(fs), "quotations.json")
      prefix == QuotationPrefix
      yearQuotations == SelectSeq(quotations, LAMBDA q : startsWith(q.quotation_number, prefix))
      maxNum == MaxSuffix(yearQuotations, prefix, 0)
  IN prefix \o padStart(String(maxNum + 1), 4)

(***************************************************************************)
(* Lookup entities (storage.ts): vendors, recipients, categories, item     *)
(* types.  The four creators are the same code over four files.            *)
(***************************************************************************)
\* Mutation of createVendor: the name lookup is case-sensitive.
createVendor_CaseSensitive(fs, k, name) ==
  LET st0 == Begin(fs)
      vendors == readData(st0, "vendors.json")
      existing == SelectSeq(vendors, LAMBDA v : v.name = name)
  IN IF existing # <<>> THEN Done(st0, Head(existing), 0)
     ELSE LET newVendor == [id |-> generateId(k + 1), name |-> name]
          IN Done(writeData(st0, "vendors.json", Append(vendors, newVendor)), newVendor, 1)

createVendor(fs, k, name) ==
  LET st0 == Begin(fs)
      vendors == readData(st0, "vendors.json")
      existing == SelectSeq(vendors, LAMBDA v : toLowerCase(v.name) = toLowerCase(name))
  IN IF existing # <<>> THEN Done(st0, Head(existing), 0)
     ELSE LET newVendor == [id |-> generateId(k + 1), name |-> name]
          IN Done(writeData(st0, "vendors.json", Append(vendors, newVendor)), newVendor, 1)

deleteVendor(fs, id) ==
  LET st0 == Begin(fs)
      vendors == readData(st0, "vendors.json")
      filtered == SelectSeq(vendors, LAMBDA v : v.id # id)
  IN IF Len(filtered) = Len(vendors) THEN Done(st0, FALSE, 0)
     ELSE Done(writeData(st0, "vendors.json", filtered), TRUE, 0)

createRecipient(fs, k, name) ==
  LET st0 == Begin(fs)
      recipients == readData(st0, "recipients.json")
      existing == SelectSeq(recipients, LAMBDA r : toLowerCase(r.name) = toLowerCase(name))
  IN IF existing # <<>> THEN Done(st0, Head(existing), 0)
     ELSE LET newRecipient == [id |-> generateId(k + 1), name |-> name]
          IN Done(writeData(st0, "recipients.json", Append(recipients, newRecipient)),
                  newRecipient, 1)

deleteRecipient(fs, id) ==
  LET st0 == Begin(fs)
      recipients == readData(st0, "recipients.json")
      filtered == SelectSeq(recipients, LAMBDA r : r.id # id)
  IN IF Len(filtered) = Len(recipients) THEN Done(st0, FALSE, 0)
     ELSE Done(writeData(st0, "recipients.json", filtered), TRUE, 0)

createCategory(fs, k, name) ==
  LET st0 == Begin(fs)
      categories == readData(st0, "categories.json")
      existing == SelectSeq(categories, LAMBDA c : toLowerCase(c.name) = toLowerCase(name))
  IN IF existing # <<>> THEN Done(st0, Head(existing), 0)
     ELSE LET newCategory == [id |-> generateId(k + 1), name |-> name]
          IN Done(writeData(st0, "categories.json", Append(categories, newCategory)),
                  newCategory, 1)

\* Mutation of createItemType: the name lookup is case-sensitive.
createItemType_CaseSensitive(fs, k, name) ==
  LET st0 == Begin(fs)
      itemTypes == readData(st0, "item_types.json")
      existing == SelectSeq(itemTypes, LAMBDA t : t.name = name)
  IN IF existing # <<>> THEN Done(st0, Head(existing), 0)
     ELSE LET newItemType == [id |-> generateId(k + 1), name |-> name]
          IN Done(writeData(st0, "item_types.json", Append(itemTypes, newItemType)),
                  newItemType, 1)

createItemType(fs, k, name) ==
  LET st0 == Begin(fs)
      itemTypes == readData(st0, "item_types.json")
      existing == SelectSeq(itemTypes, LAMBDA t : toLowerCase(t.name) = toLowerCase(name))
  IN IF existing # <<>> THEN Done(st0, Head(existing), 0)
     ELSE LET newItemType == [id |-> generateId(k + 1), name |-> name]
          IN Done(writeData(st0, "item_types.json", Append(itemTypes, newItemType)),
                  newItemType, 1)

(***************************************************************************)
(* Exchange rates (storage.ts).  A date is the <<year, month, day>> of a   *)
(* "yyyy-MM-dd" string.                                                    *)
(***************************************************************************)
\* new Date(date).getTime(), in days: later dates give larger values.
getTime(date) == (date[1] * 12 + (date[2] - 1)) * 31 + date[3]

\* Array.prototype.sort with a consistent comparator: element i lands after every
\* element that compares before it and after the equal ones that preceded it (stable).
sort(s, cmp(_, _)) ==
  LET pos(i) == 1 + Cardinality({ j \in 1..Len(s) : cmp(s[j], s[i]) < 0 })
                  + Cardinality({ j \in 1..(i - 1) : cmp(s[j], s[i]) = 0 })
  IN [p \in 1..Len(s) |-> s[CHOOSE i \in 1..Len(s) : pos(i) = p]]

getExchangeRates(fs) == readData(Begin(fs), "exchange_rates.json")

\* Mutation of byDateDescending: the comparator orders ascending by date.
byDateAscending(a, b) == getTime(a.date) - getTime(b.date)

\* The sort comparator of getLatestExchangeRate: descending by date.
byDateDescending(a, b) == getTime(b.date) - getTime(a.date)

\* <<>> stands for the null result, <<r>> for the record r.
getLatestExchangeRate(fs) ==
  LET rates == getExchangeRates(fs)
  IN IF Len(rates) = 0 THEN <<>>
     ELSE <<sort(rates, byDateDescending)[1]>>

createExchangeRate(fs, k, rate, date) ==
  LET st0 == Begin(fs)
      rates == readData(st0, "exchange_rates.json")
      newRate == [id |-> generateId(k + 1), rate |-> rate, date |-> date]
  IN Done(writeData(st0, "exchange_rates.json", Append(rates, newRate)), newRate, 1)

(***************************************************************************)
(* Settings (storage.ts).                                                  *)
(***************************************************************************)
\* updates.key || null for a partial record.
OrNull(updates, key) ==
  IF key \in DOMAIN updates /\ updates[key] # "" THEN updates[key] ELSE null

getSettings(fs) ==
  LET settings == readData(Begin(fs), "settings.json")
  IN IF Len(settings) = 0 THEN <<>> ELSE <<settings[1]>>

\* Mutation of updateSettings: a record is created on every call.
updateSettings_AlwaysCreates(fs, k, updates) ==
  LET st0 == Begin(fs)
      settings == readData(st0, "settings.json")
      newSettings == [id |-> generateId(k + 1),
                      company_address |-> OrNull(updates, "company_address"),
                      logo_url |-> OrNull(updates, "logo_url")]
                       @@ [created_at |-> now, updated_at |-> now]
  IN Done(writeData(st0, "settings.json", <<newSettings>>), newSettings, 1)

updateSettings(fs, k, updates) ==
  LET st0 == Begin(fs)
      settings == readData(st0, "settings.json")
  IN IF Len(settings) = 0
     THEN LET newSettings == [id |-> generateId(k + 1),
                              company_address |-> OrNull(updates, "company_address"),
                              logo_url |-> OrNull(updates, "logo_url")]
                                @@ [created_at |-> now, updated_at |-> now]
          IN Done(writeData(st0, "settings.json", <<newSettings>>), newSettings, 1)
     ELSE LET merged == [updated_at |-> now] @@ updates @@ settings[1]
          IN Done(writeData(st0, "settings.json", [settings EXCEPT ![1] = merged]), merged, 0)

(***************************************************************************)
(* Vendor documents (storage.ts).                                          *)
(***************************************************************************)
getVendorDocuments(fs, quotationId) ==
  SelectSeq(readData(Begin(fs), "vendor_documents.json"),
            LAMBDA d : d.quotation_id = quotationId)

addVendorDocument(fs, k, quotationId, fileName, documentType) ==
  LET st0 == Begin(fs)
      documents == readData(st0, "vendor_documents.json")
      newDocument == [id |-> generateId(k + 1), quotation_id |-> quotationId,
                      file_name |-> fileName, document_type |-> documentType]
  IN Done(writeData(st0, "vendor_documents.json", Append(documents, newDocument)),
          newDocument, 1)

\* Mutation of deleteVendorDocument: the filtered list is written back before the
\* lengths are compared.
deleteVendorDocument_WritesFirst(fs, id) ==
  LET st0 == Begin(fs)
      documents == readData(st0, "vendor_documents.json")
      filtered == SelectSeq(documents, LAMBDA d : d.id # id)
      st1 == writeData(st0, "vendor_documents.json", filtered)
  IN Done(st1, Len(filtered) # Len(documents), 0)

deleteVendorDocument(fs, id) ==
  LET st0 == Begin(fs)
      documents == readData(st0, "vendor_documents.json")
      filtered == SelectSeq(documents, LAMBDA d : d.id # id)
  IN IF Len(filtered) = Len(documents) THEN Done(st0, FALSE, 0)
     ELSE Done(writeData(st0, "vendor_documents.json", filtered), TRUE, 0)

(***************************************************************************)
(* Import / export (storage.ts).  A bundle is a record keyed by collection *)
(* name; a key the bundle lacks is outside its DOMAIN.                     *)
(***************************************************************************)
RequiredKeys ==
  <<"quotations", "quotation_items", "vendors", "recipients", "categories",
    "item_types", "exchange_rates">>

FileOf(key) == key \o ".json"

\* Mutation of exportAllData: the settings collection is left out of the bundle.
exportAllData_WithoutSettings(fs) ==
  LET st == Begin(fs)
  IN [quotations |-> readData(st, "quotations.json"),
      quotation_items |-> readData(st, "quotation_items.json"),
      vendors |-> readData(st, "vendors.json"),
      recipients |-> readData(st, "recipients.json"),
      categories |-> readData(st, "categories.json"),
      item_types |-> readData(st, "item_types.json"),
      exchange_rates |-> readData(st, "exchange_rates.json"),
      exported_at |-> "now",
      version |-> "1.0.0"]

exportAllData(fs) ==
  LET st == Begin(fs)
  IN [quotations |-> readData(st, "quotations.json"),
      quotation_items |-> readData(st, "quotation_items.json"),
      vendors |-> readData(st, "vendors.json"),
      recipients |-> readData(st, "recipients.json"),
      categories |-> readData(st, "categories.json"),
      item_types |-> readData(st, "item_types.json"),
      exchange_rates |-> readData(st, "exchange_rates.json"),
      settings |-> readData(st, "settings.json"),
      exported_at |-> "now",
      version |-> "1.0.0"]

RECURSIVE WriteKeys(_, _, _)
\* The writes of importData's Promise.all for the required keys, in order.
WriteKeys(st, data, keys) ==
  IF keys = <<>> THEN st
  ELSE WriteKeys(writeData(st, FileOf(Head(keys)), data[Head(keys)]), data, Tail(keys))

\* Mutation of importData: the structure check forgets the last required key.
importData_UncheckedRates(fs, data) ==
  LET st0 == Begin(fs)
      checked == SubSeq(RequiredKeys, 1, Len(RequiredKeys) - 1)
  IN IF \E i \in 1..Len(checked) : checked[i] \notin DOMAIN data
     THEN Done(st0, [success |-> FALSE, message |-> "Invalid data format"], 0)
     ELSE LET st1 == WriteKeys(st0, data, checked)
              st2 == writeData(st1, "settings.json",
                               IF "settings" \in DOMAIN data THEN data.settings ELSE <<>>)
          IN Done(st2, [success |-> TRUE, message |-> "Data imported successfully"], 0)

importData(fs, data) ==
  LET st0 == Begin(fs)
  IN IF \E i \in 1..Len(RequiredKeys) : RequiredKeys[i] \notin DOMAIN data
     THEN Done(st0, [success |-> FALSE, message |-> "Invalid data format"], 0)
     ELSE LET st1 == WriteKeys(st0, data, RequiredKeys)
              st2 == writeData(st1, "settings.json",
                               IF "settings" \in DOMAIN data THEN data.settings ELSE <<>>)
          IN Done(st2, [success |-> TRUE, message |-> "Data imported successfully"], 0)

(***************************************************************************)
(* New quotation page (pages/quotations/New.tsx).  A form is the page's    *)
(* React state; a form item is one row of its items table.                 *)
(***************************************************************************)
\* The item record handleSubmit hands to createQuotation / updateQuotation.
ItemPayload(item) ==
  [name |-> item.name, quantity |-> item.quantity, type_id |-> item.type_id,
   category_id |-> null, unit_price |-> item.unit_price, price |-> item.price,
   total_price |-> item.total_price]

\* Native validation of the form's inputs: quantity has min=1, unit price is never
\* negative (digits only on the New page, min=0 on the Edit page).
InputsValid(form) ==
  \A i \in 1..Len(form.items) : form.items[i].quantity >= 1 /\ form.items[i].unit_price >= 0

\* handleSubmit returns early (a toast, no storage call) unless this holds.
NewQuotation_canSubmit(form) ==
  /\ form.projectName # ""
  /\ Len(form.items) # 0
  /\ InputsValid(form)

\* recipients is the page's query result, taken to be the stored list.
NewQuotation_handleSubmit(fs, k, form) ==
  LET v == IF form.vendorName # "" THEN createVendor(fs, k, form.vendorName)
           ELSE Done(Begin(fs), [id |-> null], 0)
      vendorId == v.ret.id
      recipients == readData(Begin(fs), "recipients.json")
      existingRecipient ==
        SelectSeq(recipients, LAMBDA r : toLowerCase(r.name) = toLowerCase(form.recipient))
      r == IF form.recipient # "" /\ existingRecipient = <<>>
           THEN createRecipient(v.files, k + v.ids, form.recipient)
           ELSE Done(Begin(v.files), null, 0)
      quotationNumber == generateQuotationNumber(r.files)
      c == createQuotation(r.files, k + v.ids + r.ids,
             [quotation_number |-> quotationNumber,
              project_name |-> form.projectName,
              date |-> form.date,
              recipient |-> form.recipient,
              currency_type |-> form.currencyType,
              vendor_id |-> vendorId,
              vendor_cost |-> form.vendorCost,
              vendor_currency_type |-> form.vendorCurrencyType,
              discount |-> form.discount,
              status |-> "draft"],
             [i \in 1..Len(form.items) |-> ItemPayload(form.items[i])])
  IN [files |-> c.files, writes |-> v.writes \o r.writes \o c.writes, ret |-> c.ret,
      ids |-> v.ids + r.ids + c.ids]

\* No quotation form is open.
NoPage == [kind |-> "none"]

\* The state of the New page when it is mounted.
NewQuotation_initialState ==
  [kind |-> "new", projectName |-> "", date |-> <<2026, 1, 1>>, recipient |-> "",
   currencyType |-> "iqd", vendorName |-> "", vendorCost |-> 0, vendorCurrencyType |-> "iqd",
   discount |-> 0, items |-> <<>>]

\* addItem of the New page; rowId is the row's crypto.randomUUID().
NewQuotation_addItem(items, rowId) ==
  Append(items, [id |-> rowId, name |-> "", quantity |-> 1, type_id |-> null,
                 unit_price |-> 0, price |-> 0, total_price |-> 0])

\* updateItem of the New page.
NewQuotation_updateItem(items, id, field, value) ==
  [i \in 1..Len(items) |->
     IF items[i].id # id THEN items[i]
     ELSE LET updated == [items[i] EXCEPT ![field] = value]
          IN IF field = "quantity" \/ field = "unit_price"
             THEN [updated EXCEPT !.price = updated.quantity * updated.unit_price,
                                  !.total_price = updated.quantity * updated.unit_price]
             ELSE updated]

NewQuotation_removeItem(items, id) == SelectSeq(items, LAMBDA item : item.id # id)

(***************************************************************************)
(* Edit quotation page.                                                    *)
(***************************************************************************)
\* The useEffect that loads the fetched quotation into the form.
EditQuotation_loaded(quotation) ==
  [kind |-> "edit", id |-> quotation.id, projectName |-> quotation.project_name,
   date |-> quotation.date, recipient |-> quotation.recipient,
   currencyType |-> quotation.currency_type,
   vendorName |-> IF quotation.vendor = <<>> THEN "" ELSE quotation.vendor[1].name,
   vendorCost |-> quotation.vendor_cost,
   vendorCurrencyType |-> quotation.vendor_currency_type,
   discount |-> quotation.discount, status |-> quotation.status,
   items |-> [i \in 1..Len(quotation.quotation_items) |->
                LET item == quotation.quotation_items[i]
                IN [id |-> item.id, name |-> item.name, quantity |-> item.quantity,
                    type_id |-> item.type_id, unit_price |-> item.unit_price,
                    price |-> item.price, total_price |-> item.total_price]]]

EditQuotation_addItem(items, rowId) ==
  Append(items, [id |-> rowId, name |-> "", quantity |-> 1, type_id |-> null,
                 unit_price |-> 0, price |-> 0, total_price |-> 0])

\* Mutation of EditQuotation_updateItem: only a quantity change recomputes the prices.
EditQuotation_updateItem_QuantityOnly(items, itemId, field, value) ==
  [i \in 1..Len(items) |->
     IF items[i].id # itemId THEN items[i]
     ELSE LET updated == [items[i] EXCEPT ![field] = value]
          IN IF field = "quantity"
             THEN [updated EXCEPT !.price = updated.quantity * updated.unit_price,
                                  !.total_price = updated.quantity * updated.unit_price]
             ELSE updated]

EditQuotation_updateItem(items, itemId, field, value) ==
  [i \in 1..Len(items) |->
     IF items[i].id # itemId THEN items[i]
     ELSE LET updated == [items[i] EXCEPT ![field] = value]
          IN IF field = "quantity" \/ field = "unit_price"
             THEN [updated EXCEPT !.price = updated.quantity * updated.unit_price,
                                  !.total_price = updated.quantity * updated.unit_price]
             ELSE updated]

EditQuotation_removeItem(items, itemId) == SelectSeq(items, LAMBDA item : item.id # itemId)

EditQuotation_canSubmit(form) ==
  /\ form.projectName # ""
  /\ Len(form.items) # 0
  /\ InputsValid(form)

EditQuotation_handleSubmit(fs, k, form) ==
  LET v == IF form.vendorName # "" THEN createVendor(fs, k, form.vendorName)
           ELSE Done(Begin(fs), [id |-> null], 0)
      vendorId == v.ret.id
      recipients == readData(Begin(fs), "recipients.json")
      existingRecipient ==
        SelectSeq(recipients, LAMBDA r : toLowerCase(r.name) = toLowerCase(form.recipient))
      r == IF form.recipient # "" /\ existingRecipient = <<>>
           THEN createRecipient(v.files, k + v.ids, form.recipient)
           ELSE Done(Begin(v.files), null, 0)
      u == updateQuotation(r.files, k + v.ids + r.ids, form.id,
             [project_name |-> form.projectName,
              date |-> form.date,
              recipient |-> form.recipient,
              currency_type |-> form.currencyType,
              vendor_id |-> vendorId,
              vendor_cost |-> form.vendorCost,
              vendor_currency_type |-> form.vendorCurrencyType,
              discount |-> form.discount,
              status |-> form.status],
             Given([i \in 1..Len(form.items) |-> ItemPayload(form.items[i])]))
  IN [files |-> u.files, writes |-> v.writes \o r.writes \o u.writes, ret |-> u.ret,
      ids |-> v.ids + r.ids + u.ids]

(***************************************************************************)
(* Net totals of a quotation, as each page computes them.  The pages that  *)
(* divide by 100 are modelled in hundredths, so that no quotient is        *)
(* rounded: a result r of those operators stands for the amount r / 100.   *)
(***************************************************************************)
ItemsTotal(items) == SumSeq([i \in 1..Len(items) |-> items[i].total_price])

\* New page: finalTotal = total - discount.
NewQuotation_finalTotal(form) == ItemsTotal(form.items) - form.discount

\* Edit page, in hundredths: finalTotal = total - (total * discount) / 100.
EditQuotation_finalTotal(form) ==
  LET total == ItemsTotal(form.items)
  IN 100 * total - total * form.discount

\* View page and PDF, in hundredths: total = subtotal - (subtotal * discount) / 100.
ViewQuotation_total(quotation) ==
  LET subtotal == ItemsTotal(quotation.quotation_items)
  IN 100 * subtotal - subtotal * quotation.discount

\* type QuotationStatus, and the items both status selectors offer.
QuotationStatus == {"draft", "pending", "rejected", "approved", "invoiced"}

\* Mutation of ViewQuotation_updateStatus: an invoiced quotation keeps its status.
ViewQuotation_updateStatus_InvoicedIsFinal(fs, k, id, newStatus) ==
  LET locked == SelectSeq(readData(Begin(fs), "quotations.json"),
                          LAMBDA q : q.id = id /\ q.status = "invoiced")
  IN updateQuotation(fs, k, id,
                     [status |-> IF locked = <<>> THEN newStatus ELSE "invoiced"], Omitted)

\* The status selector of the View page.
ViewQuotation_updateStatus(fs, k, id, newStatus) ==
  updateQuotation(fs, k, id, [status |-> newStatus], Omitted)

(***************************************************************************)
(* Dashboard.                                                              *)
(***************************************************************************)
\* Mutation of Index_exchangeRate: the stored rate is used as it is, and no record
\* counts as rate 0.
Index_exchangeRate_NoFallback(fs) ==
  LET exchangeRateData == getLatestExchangeRate(fs)
  IN IF exchangeRateData = <<>> THEN 0 ELSE exchangeRateData[1].rate

\* exchangeRateData?.rate || 1
Index_exchangeRate(fs) ==
  LET exchangeRateData == getLatestExchangeRate(fs)
  IN IF exchangeRateData = <<>> THEN 1
     ELSE IF exchangeRateData[1].rate = 0 THEN 1 ELSE exchangeRateData[1].rate

Index_finalTotal(quote) == ItemsTotal(quote.quotation_items) - quote.discount

\* One step of the reduce over the invoiced quotations.
Index_profitOf(quote, exchangeRate) ==
  LET finalTotal == Index_finalTotal(quote)
      vendorCostInIQD == IF quote.vendor_currency_type = "usd"
                         THEN quote.vendor_cost * exchangeRate ELSE quote.vendor_cost
      finalTotalInIQD == IF quote.currency_type = "usd"
                         THEN finalTotal * exchangeRate ELSE finalTotal
  IN finalTotalInIQD - vendorCostInIQD

\* Mutation of Index_totalProfit: approved quotations are counted as well.
Index_totalProfit_ApprovedToo(fs) ==
  LET exchangeRate == Index_exchangeRate(fs)
      counted == SelectSeq(getQuotations(fs),
                           LAMBDA q : q.status = "invoiced" \/ q.status = "approved")
  IN SumSeq([i \in 1..Len(counted) |-> Index_profitOf(counted[i], exchangeRate)])

Index_totalProfit(fs) ==
  LET exchangeRate == Index_exchangeRate(fs)
      invoicedQuotations == SelectSeq(getQuotations(fs), LAMBDA q : q.status = "invoiced")
  IN SumSeq([i \in 1..Len(invoicedQuotations) |->
               Index_profitOf(invoicedQuotations[i], exchangeRate)])

\* ((approved / total) * 100).toFixed(1) for total > 0: the nearest number of tenths,
\* written as its integer part, a point and one digit.
Index_percentToFixed1(approved, total) ==
  LET tenths == (2000 * approved + total) \div (2 * total)
  IN String(tenths \div 10) \o <<".">> \o <<Digits[(tenths % 10) + 1]>>

\* Mutation of Index_conversionRate: invoiced quotations are not counted.
Index_conversionRate_ApprovedOnly(fs) ==
  LET quotations == getQuotations(fs)
      approvedQuotes == Len(SelectSeq(quotations, LAMBDA q : q.status = "approved"))
      totalQuotes == Len(quotations)
  IN IF totalQuotes # 0 THEN Index_percentToFixed1(approvedQuotes, totalQuotes) ELSE <<"0">>

\* approvedQuotes, totalQuotes and conversionRate; the card shows `${conversionRate}%`.
Index_conversionRate(fs) ==
  LET quotations == getQuotations(fs)
      approvedQuotes ==
        Len(SelectSeq(quotations, LAMBDA q : q.status = "approved" \/ q.status = "invoiced"))
      totalQuotes == Len(quotations)
  IN IF totalQuotes # 0 THEN Index_percentToFixed1(approvedQuotes, totalQuotes) ELSE <<"0">>

(***************************************************************************)
(* Reports page.                                                           *)
(***************************************************************************)
RECURSIVE Flatten(_)
Flatten(ss) == IF ss = <<>> THEN <<>> ELSE Head(ss) \o Flatten(Tail(ss))

\* The elements of s in the order of their first occurrence.
RECURSIVE FirstOccurrences(_)
FirstOccurrences(s) ==
  IF s = <<>> THEN <<>>
  ELSE <<Head(s)>> \o FirstOccurrences(SelectSeq(Tail(s), LAMBDA x : x # Head(s)))

\* isWithinInterval(parseISO(q.date), {start, end}) and the status filter.
ReportsIndex_filteredQuotations(quotations, startDate, endDate, statusFilter) ==
  SelectSeq(quotations, LAMBDA q :
    /\ getTime(startDate) <= getTime(q.date) /\ getTime(q.date) <= getTime(endDate)
    /\ (statusFilter = "all" \/ q.status = statusFilter))

\* item.type_id || 'no_type'
ReportsIndex_typeId(item) == IF item.type_id = null THEN "no_type" ELSE item.type_id

\* The pairs <<quotation id, item>> in the order the two nested forEach visit them.
ReportsIndex_visited(filteredQuotations) ==
  Flatten([i \in 1..Len(filteredQuotations) |->
             [j \in 1..Len(filteredQuotations[i].quotation_items) |->
                <<filteredQuotations[i].id, filteredQuotations[i].quotation_items[j]>>]])

\* The keys of typeStats in insertion order: every item type, 'no_type', then the
\* type ids met on items that have no bucket yet.
ReportsIndex_bucketKeys(filteredQuotations, itemTypes) ==
  LET visited == ReportsIndex_visited(filteredQuotations)
  IN FirstOccurrences([i \in 1..Len(itemTypes) |-> itemTypes[i].id] \o <<"no_type">>
                        \o [i \in 1..Len(visited) |-> ReportsIndex_typeId(visited[i][2])])

ReportsIndex_typeName(key, itemTypes) ==
  LET hits == SelectSeq(itemTypes, LAMBDA t : t.id = key)
  IN IF hits # <<>> THEN hits[Len(hits)].name
     ELSE IF key = "no_type" THEN "No Type" ELSE "Unknown"

\* const key = `${q.id}-${typeId}`
ReportsIndex_seenKey(v) == v[1] \o "-" \o ReportsIndex_typeId(v[2])

\* Mutation of ReportsIndex_typeStats: quotationCount is incremented for every item.
ReportsIndex_typeStats_PerItem(key, filteredQuotations, itemTypes) ==
  LET visited == ReportsIndex_visited(filteredQuotations)
      own == SelectSeq(visited, LAMBDA v : ReportsIndex_typeId(v[2]) = key)
  IN [id |-> key,
      typeName |-> ReportsIndex_typeName(key, itemTypes),
      quantity |-> SumSeq([i \in 1..Len(own) |-> own[i][2].quantity]),
      totalAmount |-> SumSeq([i \in 1..Len(own) |-> own[i][2].total_price]),
      quotationCount |-> Len(own)]

\* typeStats[key] after the loops.  quotationCount was incremented at each visit of
\* an item of this bucket whose key was not yet in quotationsWithType.
ReportsIndex_typeStats(key, filteredQuotations, itemTypes) ==
  LET visited == ReportsIndex_visited(filteredQuotations)
      own == SelectSeq(visited, LAMBDA v : ReportsIndex_typeId(v[2]) = key)
      counted == { i \in 1..Len(visited) :
                     /\ ReportsIndex_typeId(visited[i][2]) = key
                     /\ \A j \in 1..(i - 1) :
                          ReportsIndex_seenKey(visited[j]) # ReportsIndex_seenKey(visited[i]) }
  IN [id |-> key,
      typeName |-> ReportsIndex_typeName(key, itemTypes),
      quantity |-> SumSeq([i \in 1..Len(own) |-> own[i][2].quantity]),
      totalAmount |-> SumSeq([i \in 1..Len(own) |-> own[i][2].total_price]),
      quotationCount |-> Cardinality(counted)]

byTotalAmountDescending(a, b) == b.totalAmount - a.totalAmount

\* Mutation of ReportsIndex_reportData: items of a type that is not in the item
\* type table get no bucket.
ReportsIndex_reportData_KnownOnly(filteredQuotations, itemTypes) ==
  LET keys == [i \in 1..Len(itemTypes) |-> itemTypes[i].id] \o <<"no_type">>
      entries == [i \in 1..Len(keys) |->
                    ReportsIndex_typeStats(keys[i], filteredQuotations, itemTypes)]
  IN sort(SelectSeq(entries, LAMBDA stats : stats.quantity > 0 \/ stats.totalAmount > 0),
          byTotalAmountDescending)

ReportsIndex_reportData(filteredQuotations, itemTypes) ==
  LET keys == ReportsIndex_bucketKeys(filteredQuotations, itemTypes)
      entries == [i \in 1..Len(keys) |->
                    ReportsIndex_typeStats(keys[i], filteredQuotations, itemTypes)]
  IN sort(SelectSeq(entries, LAMBDA stats : stats.quantity > 0 \/ stats.totalAmount > 0),
          byTotalAmountDescending)

byDetailDateDescending(a, b) == getTime(b.date) - getTime(a.date)

ReportsIndex_detailRow(v) ==
  [quotationId |-> v[1].id, quotationNumber |-> v[1].quotation_number,
   projectName |-> v[1].project_name, recipient |-> v[1].recipient, date |-> v[1].date,
   status |-> v[1].status, itemName |-> v[2].name, quantity |-> v[2].quantity,
   unitPrice |-> v[2].unit_price, totalPrice |-> v[2].total_price]

\* The pairs <<quotation, item>> in the order the two nested forEach visit them.
ReportsIndex_visitedRows(filteredQuotations) ==
  Flatten([i \in 1..Len(filteredQuotations) |->
             [j \in 1..Len(filteredQuotations[i].quotation_items) |->
                <<filteredQuotations[i], filteredQuotations[i].quotation_items[j]>>]])

\* Mutation of ReportsIndex_itemTypeDetail: the item's type_id is compared as stored.
ReportsIndex_itemTypeDetail_RawTypeId(filteredQuotations, selectedItemType) ==
  IF selectedItemType = "all" THEN <<>>
  ELSE LET hits == SelectSeq(ReportsIndex_visitedRows(filteredQuotations),
                             LAMBDA v : v[2].type_id = selectedItemType)
       IN sort([i \in 1..Len(hits) |-> ReportsIndex_detailRow(hits[i])],
               byDetailDateDescending)

ReportsIndex_itemTypeDetail(filteredQuotations, selectedItemType) ==
  IF selectedItemType = "all" THEN <<>>
  ELSE LET hits == SelectSeq(ReportsIndex_visitedRows(filteredQuotations),
                             LAMBDA v : ReportsIndex_typeId(v[2]) = selectedItemType)
       IN sort([i \in 1..Len(hits) |-> ReportsIndex_detailRow(hits[i])],
               byDetailDateDescending)

ReportsIndex_selectedTypeTotals(itemTypeDetail) ==
  [quantity |-> SumSeq([i \in 1..Len(itemTypeDetail) |-> itemTypeDetail[i].quantity]),
   totalAmount |-> SumSeq([i \in 1..Len(itemTypeDetail) |-> itemTypeDetail[i].totalPrice])]

\* projectStats, one entry per quotationId in the order of first appearance, sorted.
\* The project names of the model are shorter than the 20 characters kept.
ReportsIndex_selectedTypeChartData(selectedItemType, itemTypeDetail) ==
  IF selectedItemType = "all" THEN <<>>
  ELSE LET keys == FirstOccurrences([i \in 1..Len(itemTypeDetail) |->
                                       itemTypeDetail[i].quotationId])
           rowsOf(key) == SelectSeq(itemTypeDetail, LAMBDA row : row.quotationId = key)
       IN sort([i \in 1..Len(keys) |->
                  [projectName |-> rowsOf(keys[i])[1].projectName,
                   quantity |-> ReportsIndex_selectedTypeTotals(rowsOf(keys[i])).quantity,
                   totalAmount |->
                     ReportsIndex_selectedTypeTotals(rowsOf(keys[i])).totalAmount]],
               byTotalAmountDescending)

ReportsIndex_totals(reportData) ==
  [quantity |-> SumSeq([i \in 1..Len(reportData) |-> reportData[i].quantity]),
   totalAmount |-> SumSeq([i \in 1..Len(reportData) |-> reportData[i].totalAmount]),
   quotationCount |-> SumSeq([i \in 1..Len(reportData) |-> reportData[i].quotationCount])]

(***************************************************************************)
(* Actions: one per storage call or page handler, run to completion.       *)
(***************************************************************************)
\* The bookkeeping common to every completed operation.
CompleteCall(op, arg, r) ==
  /\ nextId + r.ids <= scope.maxIds
  /\ files' = r.files
  /\ nextId' = nextId + r.ids
  /\ prev' = IF scope.keepPrev THEN last ELSE prev
  /\ UNCHANGED <<scope, env, calls>>
  /\ last' = [op |-> op, arg |-> arg, ret |-> r.ret, writes |-> r.writes, pre |-> files]

\* A storage call made while no form is being edited.
Complete(op, arg, r) == CompleteCall(op, arg, r) /\ UNCHANGED page

SubmitNewForm(form) ==
  /\ NewQuotation_canSubmit(form)
  /\ LET r == NewQuotation_handleSubmit(files, nextId, form)
     IN /\ CompleteCall("NewQuotation.handleSubmit", form, r)
        /\ assigned' = Append(assigned, r.ret.quotation_number)

\* The New page filled in and submitted in one step.
SubmitNew(form) == SubmitNewForm(form) /\ UNCHANGED page

DeleteQuotation(id) ==
  /\ Complete("deleteQuotation", id, deleteQuotation(files, id))
  /\ UNCHANGED assigned

CreateVendor(name) ==
  /\ Complete("createVendor", name, createVendor(files, nextId, name))
  /\ UNCHANGED assigned

DeleteVendor(id) ==
  /\ Complete("deleteVendor", id, deleteVendor(files, id))
  /\ UNCHANGED assigned

CreateRecipient(name) ==
  /\ Complete("createRecipient", name, createRecipient(files, nextId, name))
  /\ UNCHANGED assigned

DeleteRecipient(id) ==
  /\ Complete("deleteRecipient", id, deleteRecipient(files, id))
  /\ UNCHANGED assigned

CreateCategory(name) ==
  /\ Complete("createCategory", name, createCategory(files, nextId, name))
  /\ UNCHANGED assigned

CreateItemType(name) ==
  /\ Complete("createItemType", name, createItemType(files, nextId, name))
  /\ UNCHANGED assigned

CreateExchangeRate(rate, date) ==
  /\ Complete("createExchangeRate", <<rate, date>>, createExchangeRate(files, nextId, rate, date))
  /\ UNCHANGED assigned

GetLatestExchangeRate ==
  /\ Complete("getLatestExchangeRate", null,
              Done(Begin(files), getLatestExchangeRate(files), 0))
  /\ UNCHANGED assigned

UpdateSettings(updates) ==
  /\ Complete("updateSettings", updates, updateSettings(files, nextId, updates))
  /\ UNCHANGED assigned

AddVendorDocument(quotationId, fileName) ==
  /\ Complete("addVendorDocument", quotationId,
              addVendorDocument(files, nextId, quotationId, fileName, "quotation"))
  /\ UNCHANGED assigned

DeleteVendorDocument(id) ==
  /\ Complete("deleteVendorDocument", id, deleteVendorDocument(files, id))
  /\ UNCHANGED assigned

ImportData(data) ==
  /\ Complete("importData", data, importData(files, data))
  /\ UNCHANGED assigned

ExportAllData ==
  /\ Complete("exportAllData", null, Done(Begin(files), exportAllData(files), 0))
  /\ UNCHANGED assigned

(***************************************************************************)
(* Inputs of the storage specification.                                    *)
(***************************************************************************)
\* A bundle without one of its keys.
Without(data, key) == [k \in DOMAIN data \ {key} |-> data[k]]

\* A backup file written by another installation of the application.
ForeignBackup ==
  [quotations |-> <<>>,
   quotation_items |-> <<>>,
   vendors |-> <<[id |-> "x1", name |-> "Bolt"]>>,
   recipients |-> <<[id |-> "x2", name |-> "Bolt"]>>,
   categories |-> <<[id |-> "x3", name |-> "Bolt"]>>,
   item_types |-> <<[id |-> "x4", name |-> "Bolt"]>>,
   exchange_rates |-> <<[id |-> "x5", rate |-> 1460, date |-> <<2024, 1, 1>>]>>,
   settings |-> <<[id |-> "x6", company_address |-> "Erbil", logo_url |-> null]>>,
   exported_at |-> "then",
   version |-> "1.0.0"]

\* The files the user can pick in handleImport: a backup just exported or a foreign
\* one, whole or with one collection key missing.
ImportBundles(fs) ==
  LET whole == {exportAllData(fs), ForeignBackup}
  IN whole \cup { Without(b, key) : b \in whole,
                  key \in Range(RequiredKeys) \cup {"settings"} }

\* A filled-in New quotation form with one item row.
SampleItem(quantity, unit_price) ==
  [name |-> "item", quantity |-> quantity, type_id |-> null, unit_price |-> unit_price,
   price |-> quantity * unit_price, total_price |-> quantity * unit_price]

SampleForm(vendorName, items) ==
  [projectName |-> "P", date |-> <<2026, 1, 1>>, recipient |-> "", currencyType |-> "iqd",
   vendorName |-> vendorName, vendorCost |-> 0, vendorCurrencyType |-> "iqd",
   discount |-> 0, items |-> items]

\* The submit calls that can be in flight at once, none of them started.
Flows == {1, 2}

IdleCall == [pc |-> "idle"]

NoCalls == [p \in Flows |-> IdleCall]

NoOperation == [op |-> "init", arg |-> null, ret |-> null, writes |-> <<>>, pre |-> EmptyStore]

\* The application after start-up on a fresh data directory.
StartStore(maxIds, keepPrev) ==
  /\ files = EmptyStore
  /\ nextId = 0
  /\ last = NoOperation
  /\ prev = NoOperation
  /\ assigned = <<>>
  /\ scope = [maxIds |-> maxIds, keepPrev |-> keepPrev]
  /\ page = NoPage
  /\ calls = NoCalls

Start(maxIds, keepPrev) == StartStore(maxIds, keepPrev) /\ env = SoundEnvironment

Init == Start(MaxIds, FALSE)

StoredIds(filename) == Ids(files[filename]) \cup {"missing"}

(***************************************************************************)
(* Actions of the New and Edit pages: each handler changes the page state. *)
(***************************************************************************)
StorageUntouched == UNCHANGED <<files, last, prev, assigned, scope, env, calls>>

OpenNew ==
  /\ page = NoPage
  /\ page' = NewQuotation_initialState
  /\ StorageUntouched /\ UNCHANGED nextId

OpenEdit(id) ==
  /\ page = NoPage
  /\ id \in Ids(files["quotations.json"])
  /\ page' = EditQuotation_loaded(getQuotation(files, id))
  /\ StorageUntouched /\ UNCHANGED nextId

New_setProjectName(value) ==
  /\ page.kind = "new"
  /\ page' = [page EXCEPT !.projectName = value]
  /\ StorageUntouched /\ UNCHANGED nextId

New_addItem ==
  /\ page.kind = "new"
  /\ nextId + 1 <= scope.maxIds
  /\ nextId' = nextId + 1
  /\ page' = [page EXCEPT !.items = NewQuotation_addItem(@, generateId(nextId + 1))]
  /\ StorageUntouched

New_updateItem(id, field, value) ==
  /\ page.kind = "new"
  /\ page' = [page EXCEPT !.items = NewQuotation_updateItem(@, id, field, value)]
  /\ StorageUntouched /\ UNCHANGED nextId

New_removeItem(id) ==
  /\ page.kind = "new"
  /\ page' = [page EXCEPT !.items = NewQuotation_removeItem(@, id)]
  /\ StorageUntouched /\ UNCHANGED nextId

\* A successful submit navigates to the list.
New_handleSubmit ==
  /\ page.kind = "new"
  /\ SubmitNewForm(page)
  /\ page' = NoPage

Edit_addItem ==
  /\ page.kind = "edit"
  /\ nextId + 1 <= scope.maxIds
  /\ nextId' = nextId + 1
  /\ page' = [page EXCEPT !.items = EditQuotation_addItem(@, generateId(nextId + 1))]
  /\ StorageUntouched

Edit_updateItem(itemId, field, value) ==
  /\ page.kind = "edit"
  /\ page' = [page EXCEPT !.items = EditQuotation_updateItem(@, itemId, field, value)]
  /\ StorageUntouched /\ UNCHANGED nextId

Edit_removeItem(itemId) ==
  /\ page.kind = "edit"
  /\ page' = [page EXCEPT !.items = EditQuotation_removeItem(@, itemId)]
  /\ StorageUntouched /\ UNCHANGED nextId

\* The status selector of the Edit form.
Edit_setStatus(value) ==
  /\ page.kind = "edit"
  /\ page' = [page EXCEPT !.status = value]
  /\ StorageUntouched /\ UNCHANGED nextId

Edit_handleSubmit ==
  /\ page.kind = "edit"
  /\ EditQuotation_canSubmit(page)
  /\ CompleteCall("EditQuotation.handleSubmit", page,
                  EditQuotation_handleSubmit(files, nextId, page))
  /\ page' = NoPage
  /\ UNCHANGED assigned

\* Navigating away drops the page state.
LeavePage ==
  /\ page # NoPage
  /\ page' = NoPage
  /\ StorageUntouched /\ UNCHANGED nextId

(***************************************************************************)
(* Spec: the life of quotations, their items and their documents.          *)
(***************************************************************************)
QuotationForms ==
  { SampleForm(vendorName, items) :
      vendorName \in {"", "Acme"},
      items \in {<<SampleItem(2, 100)>>, <<SampleItem(1, 50), SampleItem(3, 20)>>} }

Next ==
  \/ \E form \in QuotationForms : SubmitNew(form)
  \/ \E id \in StoredIds("quotations.json") : DeleteQuotation(id)
  \/ \E id \in Ids(files["quotations.json"]) : AddVendorDocument(id, "offer.pdf")

Spec == Init /\ [][Next]_vars

(***************************************************************************)
(* SpecBundle: every collection filled through its creator, exported and   *)
(* imported.                                                               *)
(***************************************************************************)
BundleForm == SampleForm("", <<SampleItem(2, 100)>>)

InitBundle == Start(MaxBundleIds, FALSE)

NextBundle ==
  \/ SubmitNew(BundleForm)
  \/ CreateVendor("Acme")
  \/ CreateRecipient("Acme")
  \/ CreateCategory("Acme")
  \/ CreateItemType("Acme")
  \/ CreateExchangeRate(1500, <<2024, 6, 1>>)
  \/ UpdateSettings([company_address |-> "Baghdad"])
  \/ \E id \in Ids(files["quotations.json"]) : AddVendorDocument(id, "offer.pdf")
  \/ ExportAllData
  \/ \E data \in ImportBundles(files) : ImportData(data)

SpecBundle == InitBundle /\ [][NextBundle]_vars

(***************************************************************************)
(* SpecLookup: the lookup entities, created and deleted by name.           *)
(***************************************************************************)
LookupNames == {"Acme", "ACME", "acme", "Bolt"}

InitLookup == Start(MaxLookupIds, TRUE)

NextLookup ==
  \/ \E name \in LookupNames : CreateVendor(name)
  \/ \E name \in LookupNames : CreateRecipient(name)
  \/ \E name \in LookupNames : CreateCategory(name)
  \/ \E name \in LookupNames : CreateItemType(name)
  \/ \E id \in StoredIds("vendors.json") : DeleteVendor(id)
  \/ \E id \in StoredIds("recipients.json") : DeleteRecipient(id)

SpecLookup == InitLookup /\ [][NextLookup]_vars

(***************************************************************************)
(* SpecStore: quotations are created, updated with and without a new item  *)
(* list and deleted; vendors, recipients and vendor documents are created  *)
(* and deleted; every id argument may also be one that is not stored.      *)
(***************************************************************************)
UpdateQuotation(id, updates, items) ==
  /\ Complete("updateQuotation", [id |-> id, updates |-> updates, items |-> items],
              updateQuotation(files, nextId, id, updates, items))
  /\ UNCHANGED assigned

StoreForm == SampleForm("", <<SampleItem(2, 100)>>)

ItemLists ==
  { Omitted, Given(<<>>), Given(<<ItemPayload(SampleItem(1, 50))>>),
    Given(<<ItemPayload(SampleItem(1, 50)), ItemPayload(SampleItem(3, 20))>>) }

InitStore == Start(MaxStoreIds, FALSE)

NextStore ==
  \/ SubmitNew(StoreForm)
  \/ \E id \in StoredIds("quotations.json"), items \in ItemLists :
       UpdateQuotation(id, [status |-> "approved"], items)
  \/ \E id \in StoredIds("quotations.json") : DeleteQuotation(id)
  \/ CreateVendor("Acme")
  \/ \E id \in StoredIds("vendors.json") : DeleteVendor(id)
  \/ CreateRecipient("Acme")
  \/ \E id \in StoredIds("recipients.json") : DeleteRecipient(id)
  \/ \E id \in Ids(files["quotations.json"]) : AddVendorDocument(id, "offer.pdf")
  \/ \E id \in StoredIds("vendor_documents.json") : DeleteVendorDocument(id)

SpecStore == InitStore /\ [][NextStore]_vars

(***************************************************************************)
(* SpecFault: files of the data directory (or keys of localStorage) start  *)
(* and stop failing while the vendor collection is read and written.       *)
(***************************************************************************)
FaultKinds == {"unreadable", "malformed", "unwritable"}

FaultFiles == {"vendors.json"}

\* A file starts failing in one way; the store itself is not touched.
Break(kind, filename) ==
  /\ filename \notin env[kind]
  /\ env' = [env EXCEPT ![kind] = @ \cup {filename}]
  /\ last' = [op |-> "break", arg |-> <<kind, filename>>, ret |-> null, writes |-> <<>>,
              pre |-> files]
  /\ UNCHANGED <<files, nextId, prev, assigned, scope, page, calls>>

Repair(kind, filename) ==
  /\ filename \in env[kind]
  /\ env' = [env EXCEPT ![kind] = @ \ {filename}]
  /\ last' = [op |-> "repair", arg |-> <<kind, filename>>, ret |-> null, writes |-> <<>>,
              pre |-> files]
  /\ UNCHANGED <<files, nextId, prev, assigned, scope, page, calls>>

\* One call of readData, as every exported operation makes it.
ReadData(filename) ==
  /\ Complete("readData", filename, Done(Begin(files), readDataOutcome(files, filename), 0))
  /\ UNCHANGED assigned

\* One call of writeData.
WriteData(filename, data) ==
  /\ Complete("writeData", [filename |-> filename, data |-> data],
              Done(writeData(Begin(files), filename, data), writeDataOutcome(filename), 0))
  /\ UNCHANGED assigned

InitFault ==
  /\ StartStore(MaxFaultIds, FALSE)
  /\ env \in { [SoundEnvironment EXCEPT !.hasElectronAPI = b] : b \in BOOLEAN }

NextFault ==
  \/ \E kind \in FaultKinds, filename \in FaultFiles : Break(kind, filename)
  \/ \E kind \in FaultKinds, filename \in FaultFiles : Repair(kind, filename)
  \/ \E filename \in FaultFiles : ReadData(filename)
  \/ \E filename \in FaultFiles :
       WriteData(filename, <<[id |-> "x1", name |-> "Bolt"]>>)
  \/ CreateVendor("Acme")
  \/ \E id \in StoredIds("vendors.json") : DeleteVendor(id)

SpecFault == InitFault /\ [][NextFault]_vars

(***************************************************************************)
(* SpecRace: two submits of the New page in flight at once.  Each await of *)
(* handleSubmit and of createQuotation is a step of its own; what a call   *)
(* has read stays in its local variables until it writes.                  *)
(***************************************************************************)
RaceForm == SampleForm("", <<SampleItem(2, 100)>>)

\* The quotation record handleSubmit hands to createQuotation.
RacePayload(form, quotationNumber) ==
  [quotation_number |-> quotationNumber,
   project_name |-> form.projectName,
   date |-> form.date,
   recipient |-> form.recipient,
   currency_type |-> form.currencyType,
   vendor_id |-> null,
   vendor_cost |-> form.vendorCost,
   vendor_currency_type |-> form.vendorCurrencyType,
   discount |-> form.discount,
   status |-> "draft"]

\* The flows whose quotations write has completed.
WroteQuotations == { q \in Flows : calls[q].pc \in {"wroteQuotations", "done"} }

RaceStep(p, call) ==
  /\ calls' = [calls EXCEPT ![p] = call]
  /\ UNCHANGED <<last, prev, scope, page, env>>

\* await generateQuotationNumber(): one read of quotations.json.
Race_generateQuotationNumber(p) ==
  /\ calls[p].pc = "idle"
  /\ LET number == generateQuotationNumber(files)
     IN /\ RaceStep(p, [pc |-> "numbered", number |-> number, after |-> WroteQuotations])
        /\ assigned' = Append(assigned, number)
  /\ UNCHANGED <<files, nextId>>

\* createQuotation: const quotations = await readData("quotations.json").
Race_readQuotations(p) ==
  /\ calls[p].pc = "numbered"
  /\ RaceStep(p, [calls[p] EXCEPT !.pc = "readQuotations"]
                   @@ [quotations |-> readData(Begin(files), "quotations.json")])
  /\ UNCHANGED <<files, nextId, assigned>>

\* createQuotation: const existingItems = await readData("quotation_items.json").
Race_readItems(p) ==
  /\ calls[p].pc = "readQuotations"
  /\ RaceStep(p, [calls[p] EXCEPT !.pc = "readItems"]
                   @@ [existingItems |-> readData(Begin(files), "quotation_items.json")])
  /\ UNCHANGED <<files, nextId, assigned>>

\* What createQuotation computes from the two arrays the call has read.
Race_created(call, k) ==
  createQuotation([EmptyStore EXCEPT !["quotations.json"] = call.quotations,
                                     !["quotation_items.json"] = call.existingItems],
                  k, RacePayload(RaceForm, call.number),
                  [i \in 1..Len(RaceForm.items) |-> ItemPayload(RaceForm.items[i])])

\* Mutation of Race_writeQuotations: the items array is written first.
Race_writeQuotations_ItemsFirst(p) ==
  /\ calls[p].pc = "readItems"
  /\ LET r == Race_created(calls[p], nextId)
     IN /\ nextId + r.ids <= scope.maxIds
        /\ nextId' = nextId + r.ids
        /\ files' = writeData(Begin(files), "quotation_items.json",
                              r.files["quotation_items.json"]).files
        /\ RaceStep(p, [calls[p] EXCEPT !.pc = "wroteQuotations"]
                         @@ [newItems |-> r.files["quotation_items.json"],
                             created |-> r.ret])
  /\ UNCHANGED assigned

\* Mutation of Race_writeQuotations: the new quotation is appended to the collection
\* as it is stored at the time of the write.
Race_writeQuotations_Merging(p) ==
  /\ calls[p].pc = "readItems"
  /\ LET r == Race_created(calls[p], nextId)
     IN /\ nextId + r.ids <= scope.maxIds
        /\ nextId' = nextId + r.ids
        /\ files' = writeData(Begin(files), "quotations.json",
                              Append(files["quotations.json"], r.ret)).files
        /\ RaceStep(p, [calls[p] EXCEPT !.pc = "wroteQuotations"]
                         @@ [newItems |-> r.files["quotation_items.json"],
                             created |-> r.ret])
  /\ UNCHANGED assigned

\* createQuotation: the ids are generated, then await writeData("quotations.json").
Race_writeQuotations(p) ==
  /\ calls[p].pc = "readItems"
  /\ LET r == Race_created(calls[p], nextId)
     IN /\ nextId + r.ids <= scope.maxIds
        /\ nextId' = nextId + r.ids
        /\ files' = writeData(Begin(files), "quotations.json", r.files["quotations.json"]).files
        /\ RaceStep(p, [calls[p] EXCEPT !.pc = "wroteQuotations"]
                         @@ [newItems |-> r.files["quotation_items.json"],
                             created |-> r.ret])
  /\ UNCHANGED assigned

\* createQuotation: await writeData("quotation_items.json").
Race_writeItems(p) ==
  /\ calls[p].pc = "wroteQuotations"
  /\ files' = writeData(Begin(files), "quotation_items.json", calls[p].newItems).files
  /\ RaceStep(p, [calls[p] EXCEPT !.pc = "done"])
  /\ UNCHANGED <<nextId, assigned>>

NoCallStarted == \A p \in Flows : calls[p].pc = "idle"

InitRace == Start(MaxRaceIds, FALSE)

NextRace ==
  \/ NoCallStarted /\ SubmitNew(RaceForm)
  \/ NoCallStarted /\ \E id \in Ids(files["quotations.json"]) : DeleteQuotation(id)
  \/ \E p \in Flows : Race_generateQuotationNumber(p)
  \/ \E p \in Flows : Race_readQuotations(p)
  \/ \E p \in Flows : Race_readItems(p)
  \/ \E p \in Flows : Race_writeQuotations(p)
  \/ \E p \in Flows : Race_writeItems(p)

SpecRace == InitRace /\ [][NextRace]_vars

(***************************************************************************)
(* SpecLastWriter: two calls in flight at once, each a createQuotation, a  *)
(* createVendor or a deleteVendor, every await a step of its own.          *)
(***************************************************************************)
\* createVendor / deleteVendor: const vendors = await readData("vendors.json").
Vendor_read(p, op, arg) ==
  /\ calls[p].pc = "idle"
  /\ RaceStep(p, [pc |-> "readVendors", op |-> op, arg |-> arg,
                  vendors |-> readData(Begin(files), "vendors.json")])
  /\ UNCHANGED <<files, nextId, assigned>>

\* What the call computes from the array it has read.
Vendor_computed(call, k) ==
  LET snapshot == [EmptyStore EXCEPT !["vendors.json"] = call.vendors]
  IN IF call.op = "createVendor" THEN createVendor(snapshot, k, call.arg)
     ELSE deleteVendor(snapshot, call.arg)

\* createVendor / deleteVendor: the early return, or await writeData("vendors.json")
\* and the return.
Vendor_write(p) ==
  /\ calls[p].pc = "readVendors"
  /\ LET r == Vendor_computed(calls[p], nextId)
     IN /\ nextId + r.ids <= scope.maxIds
        /\ nextId' = nextId + r.ids
        /\ files' = IF r.writes = <<>> THEN files
                    ELSE writeData(Begin(files), "vendors.json", r.files["vendors.json"]).files
        /\ RaceStep(p, [calls[p] EXCEPT !.pc = "done"]
                         @@ [result |-> r.ret, wrote |-> r.writes # <<>>])
  /\ UNCHANGED assigned

InitLastWriter == Start(MaxLastWriterIds, FALSE)

NextLastWriter ==
  \/ NoCallStarted /\ CreateVendor("Acme")
  \/ \E p \in Flows : Race_generateQuotationNumber(p)
  \/ \E p \in Flows : Race_readQuotations(p)
  \/ \E p \in Flows : Race_readItems(p)
  \/ \E p \in Flows : Race_writeQuotations(p)
  \/ \E p \in Flows : Race_writeItems(p)
  \/ \E p \in Flows : Vendor_read(p, "createVendor", "Bolt")
  \/ \E p \in Flows, id \in Ids(files["vendors.json"]) : Vendor_read(p, "deleteVendor", id)
  \/ \E p \in Flows : Vendor_write(p)

SpecLastWriter == InitLastWriter /\ [][NextLastWriter]_vars

(***************************************************************************)
(* SpecCrash: one call at a time, each await a step of its own, and the    *)
(* application may be killed between any two steps.  The files keep what   *)
(* was written; the local variables of the killed call are gone.           *)
(***************************************************************************)
\* deleteQuotation: const quotations = await readData("quotations.json"), the filter
\* and the early return.
Delete_readQuotations(p, id) ==
  /\ calls[p].pc = "idle"
  /\ LET quotations == readData(Begin(files), "quotations.json")
         filtered == SelectSeq(quotations, LAMBDA q : q.id # id)
     IN RaceStep(p, IF Len(filtered) = Len(quotations)
                    THEN [pc |-> "done", deleted |-> FALSE]
                    ELSE [pc |-> "deleteFiltered", id |-> id, filtered |-> filtered])
  /\ UNCHANGED <<files, nextId, assigned>>

\* deleteQuotation: await writeData("quotations.json", filtered).
Delete_writeQuotations(p) ==
  /\ calls[p].pc = "deleteFiltered"
  /\ files' = writeData(Begin(files), "quotations.json", calls[p].filtered).files
  /\ RaceStep(p, [calls[p] EXCEPT !.pc = "deleteWroteQuotations"])
  /\ UNCHANGED <<nextId, assigned>>

\* deleteQuotation: const items = await readData("quotation_items.json") and the filter.
Delete_readItems(p) ==
  /\ calls[p].pc = "deleteWroteQuotations"
  /\ LET items == readData(Begin(files), "quotation_items.json")
     IN RaceStep(p, [calls[p] EXCEPT !.pc = "deleteReadItems"]
                      @@ [filteredItems |->
                            SelectSeq(items, LAMBDA i : i.quotation_id # calls[p].id)])
  /\ UNCHANGED <<files, nextId, assigned>>

\* deleteQuotation: await writeData("quotation_items.json", filteredItems); return true.
Delete_writeItems(p) ==
  /\ calls[p].pc = "deleteReadItems"
  /\ files' = writeData(Begin(files), "quotation_items.json", calls[p].filteredItems).files
  /\ RaceStep(p, [pc |-> "done", deleted |-> TRUE])
  /\ UNCHANGED <<nextId, assigned>>

\* The call has returned to its caller.
Returned(p) ==
  /\ calls[p].pc = "done"
  /\ RaceStep(p, IdleCall)
  /\ UNCHANGED <<files, nextId, assigned>>

\* The application is killed while the call is suspended at an await.
Crash(p) ==
  /\ calls[p].pc \notin {"idle", "done", "crashed"}
  /\ RaceStep(p, [pc |-> "crashed", call |-> calls[p]])
  /\ UNCHANGED <<files, nextId, assigned>>

\* The application is started again on the same data directory.
Restart(p) ==
  /\ calls[p].pc = "crashed"
  /\ RaceStep(p, IdleCall)
  /\ UNCHANGED <<files, nextId, assigned>>

InitCrash == Start(2 * MaxCrashSubmits, FALSE)

NextCrash ==
  \/ Len(assigned) < MaxCrashSubmits /\ Race_generateQuotationNumber(1)
  \/ Race_readQuotations(1)
  \/ Race_readItems(1)
  \/ Race_writeQuotations(1)
  \/ Race_writeItems(1)
  \/ \E id \in Ids(files["quotations.json"]) : Delete_readQuotations(1, id)
  \/ Delete_writeQuotations(1)
  \/ Delete_readItems(1)
  \/ Delete_writeItems(1)
  \/ Returned(1)
  \/ Crash(1)
  \/ Restart(1)

SpecCrash == InitCrash /\ [][NextCrash]_vars

(***************************************************************************)
(* SpecFaultyCreate: every creator of the storage layer, called while one  *)
(* of the files may have become unparsable.  Writes succeed.               *)
(***************************************************************************)
\* createQuotation called with a quotation record and one item.
CreateQuotation(quotationNumber) ==
  /\ Complete("createQuotation", quotationNumber,
              createQuotation(files, nextId, RacePayload(RaceForm, quotationNumber),
                              [i \in 1..Len(RaceForm.items) |-> ItemPayload(RaceForm.items[i])]))
  /\ assigned' = Append(assigned, quotationNumber)

InitFaultyCreate == Start(MaxFaultyCreateIds, FALSE)

NextFaultyCreate ==
  \/ env.malformed = {} /\ \E filename \in DataFile : Break("malformed", filename)
  \/ \E filename \in DataFile : Repair("malformed", filename)
  \/ CreateVendor("Acme")
  \/ CreateRecipient("Acme")
  \/ CreateCategory("Acme")
  \/ CreateItemType("Acme")
  \/ CreateExchangeRate(1500, <<2024, 6, 1>>)
  \/ \E id \in StoredIds("quotations.json") : AddVendorDocument(id, "offer.pdf")
  \/ CreateQuotation(generateQuotationNumber(files))

SpecFaultyCreate == InitFaultyCreate /\ [][NextFaultyCreate]_vars

(***************************************************************************)
(* SpecFailedWrites: the mutating operations on quotations and importData, *)
(* called while the quotations file, the items file or both may refuse to  *)
(* be written.  Reads succeed.                                             *)
(***************************************************************************)
FailingWrites == {"quotations.json", "quotation_items.json"}

InitFailedWrites == Start(MaxFailedWriteIds, FALSE)

NextFailedWrites ==
  \/ \E filename \in FailingWrites : Break("unwritable", filename)
  \/ \E filename \in FailingWrites : Repair("unwritable", filename)
  \/ CreateQuotation(generateQuotationNumber(files))
  \/ \E id \in StoredIds("quotations.json"),
        items \in {Omitted, Given(<<ItemPayload(SampleItem(1, 50))>>)} :
       UpdateQuotation(id, [status |-> "approved"], items)
  \/ \E id \in StoredIds("quotations.json") : DeleteQuotation(id)
  \/ \E data \in {ForeignBackup, Without(ForeignBackup, "vendors"), exportAllData(files)} :
       ImportData(data)

SpecFailedWrites == InitFailedWrites /\ [][NextFailedWrites]_vars

(***************************************************************************)
(* SpecSettings: the settings are saved again and again while time passes. *)
(***************************************************************************)
\* What handleSaveSettings passes: both fields, each a text or null.
SettingsInputs ==
  { [company_address |-> a, logo_url |-> l] : a \in {"Baghdad", "Erbil", null},
                                             l \in {"logo.png", null} }

Tick ==
  /\ env.now < MaxClock
  /\ env' = [env EXCEPT !.now = @ + 1]
  /\ UNCHANGED <<files, nextId, last, prev, assigned, scope, page, calls>>

GetSettings ==
  /\ Complete("getSettings", null, Done(Begin(files), getSettings(files), 0))
  /\ UNCHANGED assigned

InitSettings == Start(MaxClock, FALSE)

NextSettings ==
  \/ \E updates \in SettingsInputs : UpdateSettings(updates)
  \/ GetSettings
  \/ Tick

SpecSettings == InitSettings /\ [][NextSettings]_vars

(***************************************************************************)
(* SpecRates: exchange rates entered in any order of their dates.          *)
(***************************************************************************)
RateInputs == {0, 1460, 1500}

RateDates == {<<2023, 12, 31>>, <<2024, 1, 1>>, <<2024, 6, 1>>}

InitRates == Start(MaxRates, FALSE)

NextRates ==
  \/ \E rate \in RateInputs, date \in RateDates : CreateExchangeRate(rate, date)
  \/ GetLatestExchangeRate

SpecRates == InitRates /\ [][NextRates]_vars

(***************************************************************************)
(* SpecDashboard: quotations in both currencies move between statuses,     *)
(* rates are entered, and the dashboard is rendered.                       *)
(***************************************************************************)
ExampleItems == <<SampleItem(2, 100), SampleItem(1, 50), SampleItem(3, 20)>>

DashboardForms ==
  { [SampleForm("", ExampleItems) EXCEPT !.currencyType = c[1],
                                         !.vendorCurrencyType = c[2],
                                         !.vendorCost = 100,
                                         !.discount = 10] :
      c \in {<<"usd", "usd">>, <<"usd", "iqd">>, <<"iqd", "iqd">>} }

DashboardRates == {<<1500, <<2024, 6, 1>>>>, <<0, <<2024, 1, 1>>>>}

UpdateStatus(id, newStatus) ==
  /\ Complete("ViewQuotation.updateStatus", <<id, newStatus>>,
              ViewQuotation_updateStatus(files, nextId, id, newStatus))
  /\ UNCHANGED assigned

RenderDashboard ==
  /\ Complete("Index.totalProfit", null, Done(Begin(files), Index_totalProfit(files), 0))
  /\ UNCHANGED assigned

InitDashboard ==
  Start((1 + Len(ExampleItems)) * MaxDashboardQuotations + MaxDashboardRates, FALSE)

NextDashboard ==
  \/ /\ Len(files["quotations.json"]) < MaxDashboardQuotations
     /\ \E form \in DashboardForms : SubmitNew(form)
  \/ \E id \in Ids(files["quotations.json"]), newStatus \in {"approved", "invoiced"} :
       UpdateStatus(id, newStatus)
  \/ /\ Len(files["exchange_rates.json"]) < MaxDashboardRates
     /\ \E r \in DashboardRates :
          /\ \A i \in 1..Len(files["exchange_rates.json"]) :
               files["exchange_rates.json"][i].date # r[2]
          /\ CreateExchangeRate(r[1], r[2])
  \/ RenderDashboard

SpecDashboard == InitDashboard /\ [][NextDashboard]_vars

(***************************************************************************)
(* SpecStatus: quotations are created on the New page and their status is  *)
(* changed from the View page's selector and from the Edit form.           *)
(***************************************************************************)
InitStatus == Start(MaxStatusIds, FALSE)

NextStatus ==
  \/ SubmitNew(StoreForm)
  \/ \E id \in Ids(files["quotations.json"]), newStatus \in QuotationStatus :
       UpdateStatus(id, newStatus)
  \/ \E id \in Ids(files["quotations.json"]) : OpenEdit(id)
  \/ \E value \in QuotationStatus : Edit_setStatus(value)
  \/ Edit_handleSubmit
  \/ LeavePage

SpecStatus == InitStatus /\ [][NextStatus]_vars

(***************************************************************************)
(* SpecApproval: a few quotations move between the five statuses and the   *)
(* dashboard's approval rate card is rendered.                             *)
(***************************************************************************)
RenderApprovalRate ==
  /\ Complete("Index.conversionRate", null,
              Done(Begin(files), Index_conversionRate(files), 0))
  /\ UNCHANGED assigned

InitApproval == Start(2 * MaxApprovalQuotations, FALSE)

NextApproval ==
  \/ SubmitNew(StoreForm)
  \/ \E id \in Ids(files["quotations.json"]), newStatus \in QuotationStatus :
       UpdateStatus(id, newStatus)
  \/ RenderApprovalRate

SpecApproval == InitApproval /\ [][NextApproval]_vars

(***************************************************************************)
(* SpecReport: item types are created, quotations with typed and untyped   *)
(* items are saved, and the overview report is rendered.                   *)
(***************************************************************************)
TypeChoices == Ids(files["item_types.json"]) \cup {null}

ReportForms ==
  { SampleForm("", <<[SampleItem(2, 100) EXCEPT !.type_id = t]>>) : t \in TypeChoices }
    \cup { SampleForm("", <<[SampleItem(1, 50) EXCEPT !.type_id = t[1]],
                            [SampleItem(3, 0) EXCEPT !.type_id = t[2]]>>) :
             t \in TypeChoices \X TypeChoices }

\* The date pickers: January 2026, which holds every quotation, or February 2026.
ReportRanges == {<<<<2026, 1, 1>>, <<2026, 1, 31>>>>, <<<<2026, 2, 1>>, <<2026, 2, 28>>>>}

\* The itemTypes query delivers [] until it has resolved, the stored list afterwards.
ItemTypesQuery == {<<>>, files["item_types.json"]}

RenderReport(range, statusFilter, itemTypes) ==
  /\ LET filtered == ReportsIndex_filteredQuotations(getQuotations(files), range[1], range[2],
                                                     statusFilter)
         reportData == ReportsIndex_reportData(filtered, itemTypes)
     IN Complete("ReportsIndex.reportData",
                 [startDate |-> range[1], endDate |-> range[2], statusFilter |-> statusFilter,
                  itemTypes |-> itemTypes],
                 Done(Begin(files),
                      [reportData |-> reportData, totals |-> ReportsIndex_totals(reportData)], 0))
  /\ UNCHANGED assigned

\* The page with an item type selected for the drill-down.
RenderDetail(range, statusFilter, itemTypes, selectedItemType) ==
  /\ LET filtered == ReportsIndex_filteredQuotations(getQuotations(files), range[1], range[2],
                                                     statusFilter)
         detail == ReportsIndex_itemTypeDetail(filtered, selectedItemType)
     IN Complete("ReportsIndex.itemTypeDetail",
                 [startDate |-> range[1], endDate |-> range[2], statusFilter |-> statusFilter,
                  itemTypes |-> itemTypes, selectedItemType |-> selectedItemType],
                 Done(Begin(files),
                      [reportData |-> ReportsIndex_reportData(filtered, itemTypes),
                       itemTypeDetail |-> detail,
                       selectedTypeTotals |-> ReportsIndex_selectedTypeTotals(detail),
                       selectedTypeChartData |->
                         ReportsIndex_selectedTypeChartData(selectedItemType, detail)], 0))
  /\ UNCHANGED assigned

InitReport == Start(MaxReportIds, FALSE)

NextReport ==
  \/ \E name \in {"Acme", "Bolt"} : CreateItemType(name)
  \/ \E form \in ReportForms : SubmitNew(form)
  \/ \E range \in ReportRanges, statusFilter \in {"all", "invoiced"},
        itemTypes \in ItemTypesQuery : RenderReport(range, statusFilter, itemTypes)
  \/ \E range \in ReportRanges, statusFilter \in {"all", "invoiced"},
        itemTypes \in ItemTypesQuery,
        selectedItemType \in Ids(files["item_types.json"]) \cup {"no_type", "all"} :
       RenderDetail(range, statusFilter, itemTypes, selectedItemType)

SpecReport == InitReport /\ [][NextReport]_vars

(***************************************************************************)
(* SpecImportedReport: the overview report over a data set that came in    *)
(* through importData, whose items carry whatever numbers the file holds.  *)
(***************************************************************************)
\* quantity, unit_price and total_price of an imported item: a credit line, an empty
\* line, two ordinary lines.
ImportedAmounts == {<<0 - 1, 100, 0 - 100>>, <<0, 0, 0>>, <<1, 100, 100>>, <<2, 20, 40>>}

ImportedItem(id, typeId, amount) ==
  [id |-> id, quotation_id |-> "q1", name |-> "item", quantity |-> amount[1],
   type_id |-> typeId, category_id |-> null,
   unit_price |-> amount[2], price |-> amount[3], total_price |-> amount[3]]

\* Backup files holding one quotation with two items.
ReportBackups ==
  { [quotations |-> <<[id |-> "q1", quotation_number |-> <<"Q">>, project_name |-> "P",
                       date |-> <<2026, 1, 1>>, recipient |-> "", currency_type |-> "iqd",
                       vendor_id |-> null, vendor_cost |-> 0, vendor_currency_type |-> "iqd",
                       discount |-> 0, status |-> "draft"]>>,
     quotation_items |-> <<ImportedItem("i1", t[1], a[1]), ImportedItem("i2", t[2], a[2])>>,
     vendors |-> <<>>, recipients |-> <<>>, categories |-> <<>>,
     item_types |-> <<[id |-> "t1", name |-> "Cable"]>>,
     exchange_rates |-> <<>>] :
      t \in {null, "t1"} \X {null, "t1"}, a \in ImportedAmounts \X ImportedAmounts }

InitImportedReport == Start(0, FALSE)

NextImportedReport ==
  \/ \E data \in ReportBackups : ImportData(data)
  \/ \E range \in ReportRanges : RenderReport(range, "all", files["item_types.json"])

SpecImportedReport == InitImportedReport /\ [][NextImportedReport]_vars

(***************************************************************************)
(* SpecForm: the item rows of the New and Edit pages, edited field by      *)
(* field and saved.                                                        *)
(***************************************************************************)
RowIds == IF page = NoPage THEN {} ELSE Ids(page.items)

\* What the inputs of a row can deliver: the name text, a stored item type or
\* none, Number() of the quantity box, the digits of the unit price box.
RowEdits ==
  ({"name"} \X {"cable"})
    \cup ({"type_id"} \X (Ids(files["item_types.json"]) \cup {null}))
    \cup ({"quantity"} \X {1, 2})
    \cup ({"unit_price"} \X {0, 50})

InitForm == Start(MaxFormIds, FALSE)

NextForm ==
  \/ OpenNew
  \/ New_setProjectName("P")
  \/ New_addItem
  \/ \E id \in RowIds, e \in RowEdits : New_updateItem(id, e[1], e[2])
  \/ \E id \in RowIds : New_removeItem(id)
  \/ New_handleSubmit
  \/ \E id \in Ids(files["quotations.json"]) : OpenEdit(id)
  \/ Edit_addItem
  \/ \E id \in RowIds, e \in RowEdits : Edit_updateItem(id, e[1], e[2])
  \/ \E id \in RowIds : Edit_removeItem(id)
  \/ Edit_handleSubmit
  \/ LeavePage

SpecForm == InitForm /\ [][NextForm]_vars

(***************************************************************************)
(* Properties.                                                             *)
(***************************************************************************)
QuotationsOf(fs) == fs["quotations.json"]

ItemsOf(fs) == fs["quotation_items.json"]

\* The numeric suffix of a quotation number of the current year.
Suffix(number) == parseInt(replacePrefix(number, QuotationPrefix)).value

\* QT-<currentYear>-NNNN with exactly four digits.
WellFormedNumber(number) ==
  /\ startsWith(number, QuotationPrefix)
  /\ Len(number) = Len(QuotationPrefix) + 4
  /\ \A i \in (Len(QuotationPrefix) + 1)..Len(number) : IsDigit(number[i])

CreatedQuotation == last.op = "NewQuotation.handleSubmit"

\* C1 as stated: every number handed out by the New page is QT-<year>-NNNN and its
\* suffix is strictly greater than the suffix of every number handed out before it,
\* whether or not the quotation that carried it has been deleted since.
C1_AboveEveryEarlierNumber ==
  \A j \in 1..Len(assigned) :
    /\ WellFormedNumber(assigned[j])
    /\ \A i \in 1..(j - 1) : Suffix(assigned[i]) < Suffix(assigned[j])

\* C1 amended: the number of a quotation just created by the New page is
\* QT-<year>-NNNN and its suffix is strictly greater than the suffix of every
\* quotation of the year that was stored when it was generated; stored numbers are
\* therefore pairwise different.
C1_AboveEveryStoredNumber ==
  /\ CreatedQuotation =>
       /\ WellFormedNumber(last.ret.quotation_number)
       /\ \A q \in Range(QuotationsOf(last.pre)) :
            startsWith(q.quotation_number, QuotationPrefix)
              => Suffix(q.quotation_number) < Suffix(last.ret.quotation_number)
  /\ \A i, j \in 1..Len(QuotationsOf(files)) :
       i # j => QuotationsOf(files)[i].quotation_number # QuotationsOf(files)[j].quotation_number

\* C1 witness: a quotation created while another is stored, after a deletion.
C1_Witness ==
  /\ CreatedQuotation
  /\ Len(QuotationsOf(last.pre)) >= 1
  /\ Len(assigned) > Len(QuotationsOf(files))

DeletedQuotation == last.op = "deleteQuotation" /\ last.ret = TRUE

\* C2: after deleteQuotation(id) returned true, no stored item refers to id,
\* getQuotations() lists no quotation with that id, and the items of every other
\* quotation are stored as before.
C2_DeleteCascadesToItems ==
  DeletedQuotation =>
    /\ \A it \in Range(ItemsOf(files)) : it.quotation_id # last.arg
    /\ \A q \in Range(getQuotations(files)) : q.id # last.arg
    /\ ItemsOf(files) = SelectSeq(ItemsOf(last.pre), LAMBDA it : it.quotation_id # last.arg)

\* C2 witness: the deleted quotation had items and another quotation keeps its own.
C2_Witness ==
  /\ DeletedQuotation
  /\ \E it \in Range(ItemsOf(last.pre)) : it.quotation_id = last.arg
  /\ ItemsOf(files) # <<>>

\* An import of exactly what exportAllData returns for the store it is applied to.
RoundTrip == last.op = "importData" /\ last.arg = exportAllData(last.pre)

\* C3: importData(exportAllData()) leaves every one of the nine collections with
\* the set of record identifiers it had before.
C3_RoundTripKeepsIds ==
  RoundTrip => \A f \in DataFile : Ids(files[f]) = Ids(last.pre[f])

\* C3 witness: a round trip over a store with settings, a vendor document and at
\* least one more non-empty collection.
C3_Witness ==
  /\ RoundTrip
  /\ last.ret.success
  /\ files["settings.json"] # <<>>
  /\ Cardinality({ f \in DataFile : files[f] # <<>> }) >= 3

\* An import whose bundle lacks a required key.
LacksRequiredKey(data) == \E i \in 1..Len(RequiredKeys) : RequiredKeys[i] \notin DOMAIN data

\* C10: importData of a bundle lacking a required key returns success = false with
\* a message, writes no file and leaves every collection as it was.
C10_RejectedImportWritesNothing ==
  (last.op = "importData" /\ LacksRequiredKey(last.arg)) =>
    /\ last.ret.success = FALSE
    /\ last.ret.message # ""
    /\ last.writes = <<>>
    /\ files = last.pre

\* C10 witness: a rejected bundle that differs from a non-empty store in the
\* collections it does carry.
C10_Witness ==
  /\ last.op = "importData"
  /\ LacksRequiredKey(last.arg)
  /\ "vendors" \in DOMAIN last.arg
  /\ files["vendors.json"] # <<>>
  /\ last.arg.vendors # files["vendors.json"]

\* The file a lookup creator works on.
LookupFile(op) ==
  CASE op = "createVendor" -> "vendors.json"
    [] op = "createRecipient" -> "recipients.json"
    [] op = "createCategory" -> "categories.json"
    [] op = "createItemType" -> "item_types.json"

LookupCreators == {"createVendor", "createRecipient", "createCategory", "createItemType"}

\* The same creator called twice in a row with names equal up to case.
CreatedTwice ==
  /\ last.op \in LookupCreators
  /\ prev.op = last.op
  /\ toLowerCase(prev.arg) = toLowerCase(last.arg)

\* The first of the two calls found no record of that name (up to case).
FirstCallCreated ==
  \A r \in Range(prev.pre[LookupFile(prev.op)]) : toLowerCase(r.name) # toLowerCase(prev.arg)

\* C4: a lookup creator called with a name and then with a case variant of it
\* returns the same record id both times, the second call writes nothing, and the
\* collection has grown by exactly one record over the two calls (the first call
\* being the one that created the record; by none when the name was stored already).
C4_CreateTwiceIsIdempotent ==
  CreatedTwice =>
    /\ last.ret.id = prev.ret.id
    /\ last.writes = <<>>
    /\ files = last.pre
    /\ Len(files[LookupFile(last.op)])
         = Len(prev.pre[LookupFile(last.op)]) + (IF FirstCallCreated THEN 1 ELSE 0)

\* C4 witness: an item type created and then requested again in another case.
C4_Witness ==
  /\ CreatedTwice
  /\ last.op = "createItemType"
  /\ prev.arg # last.arg
  /\ FirstCallCreated
  /\ Len(files["item_types.json"]) = Len(prev.pre["item_types.json"]) + 1

RowConsistent(item) ==
  /\ item.price = item.quantity * item.unit_price
  /\ item.total_price = item.price

\* C5: every item row of the open New or Edit page, after addItem and after any
\* updateItem, and every item record the two pages have persisted, has
\* price = quantity * unit_price and total_price = price.
C5_FormItemsConsistent ==
  /\ page # NoPage => \A i \in 1..Len(page.items) : RowConsistent(page.items[i])
  /\ \A i \in 1..Len(files["quotation_items.json"]) :
       RowConsistent(files["quotation_items.json"][i])

\* The Edit page has saved a row whose name, quantity and unit price were all edited.
C5_Witness ==
  /\ last.op = "EditQuotation.handleSubmit"
  /\ \E i \in 1..Len(files["quotation_items.json"]) :
       LET item == files["quotation_items.json"][i]
       IN item.name = "cable" /\ item.quantity = 2 /\ item.unit_price = 50
          /\ item.total_price = 100

RatesOf(fs) == fs["exchange_rates.json"]

\* C9: getLatestExchangeRate returns null when no rate is stored, and otherwise
\* a stored record whose date is not earlier than the date of any stored record,
\* in whatever order the records were created.
C9_LatestHasMaximalDate ==
  last.op = "getLatestExchangeRate" =>
    IF RatesOf(files) = <<>> THEN last.ret = <<>>
    ELSE /\ Len(last.ret) = 1
         /\ \E i \in 1..Len(RatesOf(files)) : RatesOf(files)[i] = last.ret[1]
         /\ \A j \in 1..Len(RatesOf(files)) :
              getTime(last.ret[1].date) >= getTime(RatesOf(files)[j].date)

\* Three records created latest date first; the call returns the first of them.
C9_Witness ==
  /\ last.op = "getLatestExchangeRate"
  /\ Len(RatesOf(files)) = 3
  /\ RatesOf(files)[1].date = <<2024, 6, 1>> /\ RatesOf(files)[1].rate = 1500
  /\ RatesOf(files)[2].date = <<2023, 12, 31>>
  /\ RatesOf(files)[3].date = <<2024, 1, 1>> /\ RatesOf(files)[3].rate = 1460
  /\ last.ret = <<RatesOf(files)[1]>>

\* The sum of total_price over the stored items of quotation id.
SubtotalOf(fs, id) ==
  LET own == SelectSeq(ItemsOf(fs), LAMBDA item : item.quotation_id = id)
  IN SumSeq([i \in 1..Len(own) |-> own[i].total_price])

Converted(amount, tag, rate) == IF tag = "usd" THEN amount * rate ELSE amount

\* Net total minus vendor cost of the invoiced quotations, each amount converted
\* with rate iff its own currency tag is 'usd'.
ExpectedProfit(fs, rate) ==
  SumSeq([i \in 1..Len(QuotationsOf(fs)) |->
            LET q == QuotationsOf(fs)[i]
            IN IF q.status # "invoiced" THEN 0
               ELSE Converted(SubtotalOf(fs, q.id) - q.discount, q.currency_type, rate)
                      - Converted(q.vendor_cost, q.vendor_currency_type, rate)])

RenderedDashboard == last.op = "Index.totalProfit"

\* C8 as stated: whenever a rate record exists, total profit is the sum over the
\* invoiced quotations of (subtotal - discount) minus vendor cost, each amount
\* multiplied by the latest exchange rate iff its currency tag is 'usd'.
C8_ProfitUsesLatestRate ==
  RenderedDashboard /\ RatesOf(files) # <<>> =>
    last.ret = ExpectedProfit(files, getLatestExchangeRate(files)[1].rate)

\* C8, amended: total profit is that sum with each 'usd' amount multiplied by the
\* latest exchange rate when a rate record exists and its rate is not 0, and by 1
\* otherwise; quotations that are not invoiced contribute nothing.
C8_ProfitUsesEffectiveRate ==
  RenderedDashboard =>
    last.ret = ExpectedProfit(files,
                 IF RatesOf(files) = <<>> THEN 1
                 ELSE IF getLatestExchangeRate(files)[1].rate = 0 THEN 1
                 ELSE getLatestExchangeRate(files)[1].rate)

\* Latest rate 1500, one invoiced quotation of net total 300 USD and vendor cost
\* 100 USD, one approved quotation: the profit is 300 * 1500 - 100 * 1500.
C8_Witness ==
  /\ RenderedDashboard
  /\ getLatestExchangeRate(files) # <<>>
  /\ getLatestExchangeRate(files)[1].rate = 1500
  /\ Len(QuotationsOf(files)) = 2
  /\ \E i, j \in 1..2 :
       /\ QuotationsOf(files)[i].status = "invoiced"
       /\ QuotationsOf(files)[i].currency_type = "usd"
       /\ QuotationsOf(files)[i].vendor_currency_type = "usd"
       /\ QuotationsOf(files)[j].status = "approved"
  /\ last.ret = 300000

\* C7 as stated: for every stored quotation, the New form, the Edit form, the View
\* page and the dashboard all compute the net total (sum of item total_price)
\* minus the stored discount taken as a flat amount.  Amounts are compared in
\* hundredths.
C7_NetTotalAgrees ==
  \A i \in 1..Len(getQuotations(files)) :
    LET q == getQuotations(files)[i]
        flat == 100 * (SubtotalOf(files, q.id) - q.discount)
    IN /\ 100 * NewQuotation_finalTotal(EditQuotation_loaded(q)) = flat
       /\ EditQuotation_finalTotal(EditQuotation_loaded(q)) = flat
       /\ ViewQuotation_total(q) = flat
       /\ 100 * Index_finalTotal(q) = flat

\* Items {2 x 100, 1 x 50, 3 x 20} with discount 10 are stored: the New form and the
\* dashboard compute 300, the Edit form and the View page 279.
C7_Witness ==
  \E i \in 1..Len(getQuotations(files)) :
    LET q == getQuotations(files)[i]
    IN /\ SubtotalOf(files, q.id) = 310 /\ q.discount = 10
       /\ NewQuotation_finalTotal(EditQuotation_loaded(q)) = 300
       /\ Index_finalTotal(q) = 300
       /\ EditQuotation_finalTotal(EditQuotation_loaded(q)) = 27900
       /\ ViewQuotation_total(q) = 27900

RenderedReport == last.op = "ReportsIndex.reportData"

CoversEverything(arg) ==
  /\ arg.statusFilter = "all"
  /\ \A i \in 1..Len(QuotationsOf(files)) :
       /\ getTime(arg.startDate) <= getTime(QuotationsOf(files)[i].date)
       /\ getTime(QuotationsOf(files)[i].date) <= getTime(arg.endDate)

CollectionKeys == Range(RequiredKeys) \cup {"settings", "vendor_documents"}

\* The array a bundle carries for a collection; an omitted collection counts as empty.
BundleArray(data, key) == IF key \in DOMAIN data THEN data[key] ELSE <<>>

ImportedBundle == last.op = "importData" /\ last.ret.success

\* C11 as stated: after a successful importData every one of the nine collections
\* holds exactly the bundle's array for it, the empty array when the bundle omits
\* it; no collection keeps records from before the import.
C11_ImportReplacesEveryCollection ==
  ImportedBundle =>
    \A key \in CollectionKeys : files[FileOf(key)] = BundleArray(last.arg, key)

\* A bundle without vendor documents was imported with success and the vendor
\* documents stored before the import are still there.
C11_Witness ==
  /\ ImportedBundle
  /\ "vendor_documents" \notin DOMAIN last.arg
  /\ files["vendor_documents.json"] # <<>>
  /\ files["vendor_documents.json"] = last.pre["vendor_documents.json"]
  /\ \A key \in CollectionKeys \ {"vendor_documents"} :
       files[FileOf(key)] = BundleArray(last.arg, key)

\* C20 as stated: the bundle returned by exportAllData holds the current contents
\* of each of the nine collections, a version tag and an export timestamp.
C20_ExportHoldsEveryCollection ==
  last.op = "exportAllData" =>
    /\ \A key \in CollectionKeys : BundleArray(last.ret, key) = files[FileOf(key)]
    /\ {"version", "exported_at"} \subseteq DOMAIN last.ret

\* An export of a store with a vendor document: the bundle has the eight other
\* collections, the version and the timestamp, and no vendor_documents key.
C20_Witness ==
  /\ last.op = "exportAllData"
  /\ files["vendor_documents.json"] # <<>>
  /\ "vendor_documents" \notin DOMAIN last.ret
  /\ \A key \in CollectionKeys \ {"vendor_documents"} :
       key \in DOMAIN last.ret /\ last.ret[key] = files[FileOf(key)]
  /\ {"version", "exported_at"} \subseteq DOMAIN last.ret

\* The operations that look a record up by id, and the file each looks in.
ByIdOperations ==
  {"updateQuotation", "deleteQuotation", "deleteVendor", "deleteRecipient",
   "deleteVendorDocument"}

TargetFile(op) ==
  CASE op \in {"updateQuotation", "deleteQuotation"} -> "quotations.json"
    [] op = "deleteVendor" -> "vendors.json"
    [] op = "deleteRecipient" -> "recipients.json"
    [] op = "deleteVendorDocument" -> "vendor_documents.json"

TargetId == IF last.op = "updateQuotation" THEN last.arg.id ELSE last.arg

\* The last call was one of the five and its id was not in the collection.
NotFoundCall ==
  /\ last.op \in ByIdOperations
  /\ TargetId \notin Ids(last.pre[TargetFile(last.op)])

\* C12: updateQuotation, deleteQuotation, deleteVendor, deleteRecipient and
\* deleteVendorDocument called with an id that is not in the collection return
\* null (update) or false (deletes), issue no write and leave every collection
\* unchanged.
C12_NotFoundWritesNothing ==
  NotFoundCall =>
    /\ IF last.op = "updateQuotation" THEN last.ret = null ELSE last.ret = FALSE
    /\ last.writes = <<>>
    /\ files = last.pre

\* updateQuotation with a new item list for an id that is not stored, on a store
\* that holds quotations, items and vendor documents.
C12_Witness ==
  /\ NotFoundCall
  /\ last.op = "updateQuotation"
  /\ last.arg.items # Omitted
  /\ QuotationsOf(files) # <<>>
  /\ ItemsOf(files) # <<>>
  /\ files["vendor_documents.json"] # <<>>

\* The last call was updateQuotation on a stored quotation.
UpdatedQuotation ==
  /\ last.op = "updateQuotation"
  /\ last.arg.id \in Ids(QuotationsOf(last.pre))

ItemsOfQuotation(fs, id) == SelectSeq(ItemsOf(fs), LAMBDA item : item.quotation_id = id)

ItemsOfOthers(fs, id) == SelectSeq(ItemsOf(fs), LAMBDA item : item.quotation_id # id)

\* An item record without the two fields the storage layer adds.
AsSupplied(item) == [key \in DOMAIN item \ {"id", "quotation_id"} |-> item[key]]

\* C13: after updateQuotation(id, patch, items) on a stored id, the stored items of
\* id are exactly the supplied ones, each under an id no item had before, the items
\* of every other quotation are unchanged; when items is omitted the items
\* collection is not written.
C13_ItemsFullyReplaced ==
  UpdatedQuotation =>
    IF last.arg.items = Omitted
    THEN /\ \A i \in 1..Len(last.writes) : last.writes[i] # "quotation_items.json"
         /\ ItemsOf(files) = ItemsOf(last.pre)
    ELSE LET own == ItemsOfQuotation(files, last.arg.id)
             supplied == last.arg.items[1]
         IN /\ Len(own) = Len(supplied)
            /\ \A i \in 1..Len(own) :
                 /\ AsSupplied(own[i]) = supplied[i]
                 /\ own[i].id \notin Ids(ItemsOf(last.pre))
                 /\ \A j \in 1..Len(own) : own[i].id = own[j].id => i = j
            /\ ItemsOfOthers(files, last.arg.id) = ItemsOfOthers(last.pre, last.arg.id)

\* A quotation's single item was replaced by a different one while another
\* quotation kept its item.
C13_Witness ==
  /\ UpdatedQuotation
  /\ last.arg.items # Omitted
  /\ Len(last.arg.items[1]) = 1
  /\ ItemsOfQuotation(last.pre, last.arg.id) # <<>>
  /\ ItemsOfQuotation(files, last.arg.id)[1].quantity = 1
  /\ ItemsOfOthers(files, last.arg.id) # <<>>

FailsToRead(filename) == filename \in env.unreadable \cup env.malformed

\* C14: readData never throws and answers the empty collection when the file
\* cannot be read or parsed, the stored array otherwise; writeData never throws
\* and answers false, storing nothing, when the file cannot be written, true
\* otherwise; on the Electron backend and on the localStorage one.
C14_FaultsAreNotThrown ==
  /\ last.op = "readData" =>
       /\ ~last.ret.threw
       /\ last.ret.value = IF FailsToRead(last.arg) THEN <<>> ELSE files[last.arg]
  /\ last.op = "writeData" =>
       /\ ~last.ret.threw
       /\ IF last.arg.filename \in env.unwritable
          THEN last.ret.value = FALSE /\ files = last.pre
          ELSE last.ret.value = TRUE /\ files[last.arg.filename] = last.arg.data

\* On the localStorage backend a vendor is stored, the entry no longer parses and
\* readData has answered [].
C14_Witness ==
  /\ ~env.hasElectronAPI
  /\ last.op = "readData"
  /\ last.arg \in env.malformed
  /\ files[last.arg] # <<>>
  /\ last.ret = Return(<<>>)

Numbered(p) == calls[p].pc # "idle"

\* C15: of two submits in flight, when each called generateQuotationNumber before
\* the quotations write of the other had completed, both got the same number; when
\* one called it after the quotations write of the other had completed, the two
\* numbers differ.
C15_NumbersUnderInterleaving ==
  \A p, q \in Flows :
    (p # q /\ Numbered(p) /\ Numbered(q)) =>
      /\ (q \notin calls[p].after /\ p \notin calls[q].after)
           => calls[p].number = calls[q].number
      /\ q \in calls[p].after => calls[p].number # calls[q].number

\* Both submits got their number before either wrote, then ran one after the
\* other: two stored quotations carry the same number.
C15_Witness ==
  /\ \A p \in Flows : calls[p].pc = "done" /\ calls[p].after = {}
  /\ calls[1].number = calls[2].number
  /\ \E i, j \in 1..Len(QuotationsOf(files)) :
       /\ i # j
       /\ QuotationsOf(files)[i].quotation_number = QuotationsOf(files)[j].quotation_number

LookupFiles == {"vendors.json", "recipients.json", "categories.json", "item_types.json"}

\* C16: in each of the four lookup collections no two stored records have names
\* that are equal ignoring case, after any sequence of completed creates and
\* deletes from the empty store.
C16_NamesUniqueIgnoringCase ==
  \A f \in LookupFiles :
    \A i, j \in 1..Len(files[f]) :
      toLowerCase(files[f][i].name) = toLowerCase(files[f][j].name) => i = j

\* A vendor was created, deleted and created again under another spelling, and a
\* create under a third spelling has returned the stored record without writing.
C16_Witness ==
  /\ last.op = "createVendor"
  /\ last.writes = <<>>
  /\ prev.op = "createVendor"
  /\ prev.writes # <<>>
  /\ Len(files["vendors.json"]) = 1
  /\ nextId = 2
  /\ files["vendors.json"][1].id = generateId(2)
  /\ files["vendors.json"][1].name # last.arg

SettingsOf(fs) == fs["settings.json"]

\* C17: from the empty settings collection, after any updateSettings the
\* collection holds exactly one record; the first call creates it, every later
\* call merges into it, keeping its id and created_at, and getSettings returns it.
C17_SettingsSingleton ==
  /\ Len(SettingsOf(files)) <= 1
  /\ last.op = "updateSettings" =>
       /\ Len(SettingsOf(files)) = 1
       /\ last.ret = SettingsOf(files)[1]
       /\ SettingsOf(files)[1].company_address = last.arg.company_address
       /\ SettingsOf(files)[1].logo_url = last.arg.logo_url
       /\ IF SettingsOf(last.pre) = <<>>
          THEN SettingsOf(files)[1].created_at = SettingsOf(files)[1].updated_at
          ELSE /\ SettingsOf(files)[1].id = SettingsOf(last.pre)[1].id
               /\ SettingsOf(files)[1].created_at = SettingsOf(last.pre)[1].created_at
  /\ last.op = "getSettings" =>
       last.ret = IF SettingsOf(files) = <<>> THEN <<>> ELSE <<SettingsOf(files)[1]>>

\* A later save, at a later time, has changed the address of the record the first
\* save created.
C17_Witness ==
  /\ last.op = "updateSettings"
  /\ SettingsOf(last.pre) # <<>>
  /\ SettingsOf(last.pre)[1].company_address # SettingsOf(files)[1].company_address
  /\ SettingsOf(files)[1].created_at < SettingsOf(files)[1].updated_at
  /\ SettingsOf(files)[1].id = generateId(1)


(***************************************************************************)
(* C18: a quotation submitted on the New page is stored with status        *)
(* 'draft'; whatever status a stored quotation has, choosing any of the    *)
(* five statuses in the View page's selector, or submitting the Edit form  *)
(* with any of them, stores exactly that status (also when the quotation   *)
(* was 'invoiced'); and every stored status is one of the five.            *)
(***************************************************************************)
StatusOf(fs, id) == Find(QuotationsOf(fs), LAMBDA q : q.id = id).status

StatusRequest ==
  IF last.op = "ViewQuotation.updateStatus"
  THEN <<[id |-> last.arg[1], status |-> last.arg[2]]>>
  ELSE IF last.op = "EditQuotation.handleSubmit"
       THEN <<[id |-> last.arg.id, status |-> last.arg.status]>>
       ELSE <<>>

C18_StatusMachine ==
  /\ \A i \in 1..Len(QuotationsOf(files)) : QuotationsOf(files)[i].status \in QuotationStatus
  /\ last.op = "NewQuotation.handleSubmit" =>
       /\ last.ret.id \notin Ids(QuotationsOf(last.pre))
       /\ StatusOf(files, last.ret.id) = "draft"
  /\ \A request \in { StatusRequest[i] : i \in 1..Len(StatusRequest) } :
       request.id \in Ids(QuotationsOf(last.pre)) =>
         /\ "quotations.json" \in { last.writes[i] : i \in 1..Len(last.writes) }
         /\ StatusOf(files, request.id) = request.status

\* The View page's selector has moved an invoiced quotation back to draft.
C18_Witness ==
  /\ last.op = "ViewQuotation.updateStatus"
  /\ last.arg[1] \in Ids(QuotationsOf(last.pre))
  /\ StatusOf(last.pre, last.arg[1]) = "invoiced"
  /\ StatusOf(files, last.arg[1]) = "draft"


(***************************************************************************)
(* C19: the approval rate the dashboard shows is "0" when no quotation is  *)
(* stored; otherwise it is written with exactly one digit after the point, *)
(* lies between 0 and 100, and is the one-decimal number nearest to        *)
(* 100 * (quotations approved or invoiced) / (all quotations).             *)
(***************************************************************************)
ApprovedOrInvoiced(fs) ==
  Len(SelectSeq(QuotationsOf(fs), LAMBDA q : q.status \in {"approved", "invoiced"}))

\* The text is digits, a point and one digit, with no superfluous leading zero.
OneDecimalPlace(text) ==
  /\ Len(text) >= 3
  /\ text[Len(text) - 1] = "."
  /\ \A i \in (1..Len(text)) \ {Len(text) - 1} : IsDigit(text[i])
  /\ (Len(text) > 3 => text[1] # "0")

\* The number of tenths such a text denotes.
TenthsOf(text) ==
  10 * ParseDigits(SubSeq(text, 1, Len(text) - 2), 0) + DigitValue(text[Len(text)])

C19_ApprovalRate ==
  last.op = "Index.conversionRate" =>
    LET total == Len(QuotationsOf(files))
        approved == ApprovedOrInvoiced(files)
    IN IF total = 0
       THEN last.ret = <<"0">>
       ELSE /\ OneDecimalPlace(last.ret)
            /\ TenthsOf(last.ret) \in 0..1000
            /\ 2 * (TenthsOf(last.ret) * total - 1000 * approved) <= total
            /\ 2 * (1000 * approved - TenthsOf(last.ret) * total) <= total

\* Of three quotations one is approved and one invoiced: the card shows 66.7.
C19_Witness ==
  /\ last.op = "Index.conversionRate"
  /\ Len(QuotationsOf(files)) = 3
  /\ \E i, j \in 1..3 : /\ QuotationsOf(files)[i].status = "approved"
                        /\ QuotationsOf(files)[j].status = "invoiced"
  /\ ApprovedOrInvoiced(files) = 2
  /\ last.ret = <<"6", "6", ".", "7">>


(***************************************************************************)
(* C21: in createQuotation the quotations write comes first and leaves the *)
(* items alone, so between the two writes, also when the application is    *)
(* killed there, the new quotation is stored without its items, and an     *)
(* item of the new quotation is never stored without the quotation.  In    *)
(* deleteQuotation the quotations write comes first and leaves the items   *)
(* alone, so a crash between its two writes leaves the quotation gone and  *)
(* its items stored.  A crash itself changes no file.                      *)
(***************************************************************************)
\* The call of flow p, also when the application was killed during it.
CallOf(p) == IF calls[p].pc = "crashed" THEN calls[p].call ELSE calls[p]

BetweenCreateWrites(p) == CallOf(p).pc = "wroteQuotations"

BetweenDeleteWrites(p) == CallOf(p).pc \in {"deleteWroteQuotations", "deleteReadItems"}

C21_BetweenWrites ==
  /\ BetweenCreateWrites(1) =>
       /\ CallOf(1).created \in Range(QuotationsOf(files))
       /\ ItemsOfQuotation(files, CallOf(1).created.id) = <<>>
  /\ (CallOf(1).pc = "done" /\ "created" \in DOMAIN CallOf(1)) =>
       /\ CallOf(1).created \in Range(QuotationsOf(files))
       /\ ItemsOfQuotation(files, CallOf(1).created.id) # <<>>
  /\ BetweenDeleteWrites(1) => CallOf(1).id \notin Ids(QuotationsOf(files))

C21_FirstWrite ==
  /\ (calls[1].pc = "readItems" /\ calls'[1].pc = "wroteQuotations") =>
       /\ ItemsOf(files') = ItemsOf(files)
       /\ QuotationsOf(files') = Append(QuotationsOf(files), calls'[1].created)
  /\ (calls[1].pc = "deleteFiltered" /\ calls'[1].pc = "deleteWroteQuotations") =>
       /\ ItemsOf(files') = ItemsOf(files)
       /\ calls[1].id \in Ids(QuotationsOf(files))
       /\ calls[1].id \notin Ids(QuotationsOf(files'))
  /\ (calls'[1].pc = "crashed" \/ calls[1].pc = "crashed") => files' = files

C21_WriteOrdering == [](C21_BetweenWrites) /\ [][C21_FirstWrite]_vars

\* A crash between the two writes of deleteQuotation has left items whose quotation
\* is gone, next to a quotation that a crash during createQuotation left without items.
C21_Witness ==
  /\ calls[1].pc = "crashed"
  /\ BetweenDeleteWrites(1)
  /\ ItemsOfQuotation(files, CallOf(1).id) # <<>>
  /\ \E q \in Range(QuotationsOf(files)) : ItemsOfQuotation(files, q.id) = <<>>


(***************************************************************************)
(* C22: deleteQuotation does not write the vendor documents: the           *)
(* collection is as it was before the call, and getVendorDocuments for the *)
(* deleted id returns the same documents as before.                        *)
(***************************************************************************)
DocumentsOf(fs) == fs["vendor_documents.json"]

C22_DeleteKeepsDocuments ==
  last.op = "deleteQuotation" =>
    /\ DocumentsOf(files) = DocumentsOf(last.pre)
    /\ getVendorDocuments(files, last.arg) = getVendorDocuments(last.pre, last.arg)
    /\ "vendor_documents.json" \notin Range(last.writes)

\* A quotation with a vendor document was deleted: the quotation and its items are
\* gone and the document is still returned for its id.
C22_Witness ==
  /\ last.op = "deleteQuotation"
  /\ last.ret = TRUE
  /\ last.arg \in Ids(QuotationsOf(last.pre))
  /\ last.arg \notin Ids(QuotationsOf(files))
  /\ ItemsOfQuotation(last.pre, last.arg) # <<>>
  /\ ItemsOfQuotation(files, last.arg) = <<>>
  /\ getVendorDocuments(files, last.arg) # <<>>


(***************************************************************************)
(* C23: a write replaces the collection by what the writing call computed  *)
(* from its own earlier read.  When another call has written the same      *)
(* collection in between (its change is not in what the writer had read),  *)
(* that change is gone after the write: a quotation, its items or a vendor *)
(* the other call created is no longer stored, a vendor it deleted is      *)
(* stored again.  The writer returns its normal result.                    *)
(***************************************************************************)
VendorsOf(fs) == fs["vendors.json"]

CreatedQuotation_(q) == calls[q].pc \in {"wroteQuotations", "done"} /\ "created" \in DOMAIN calls[q]

WroteVendors(q) == calls[q].pc = "done" /\ "wrote" \in DOMAIN calls[q] /\ calls[q].wrote

C23_Overwrite(p, q) ==
  /\ (calls[p].pc = "readItems" /\ calls'[p].pc = "wroteQuotations") =>
       /\ QuotationsOf(files') = Append(calls[p].quotations, calls'[p].created)
       /\ (CreatedQuotation_(q) /\ calls[q].created \notin Range(calls[p].quotations)) =>
            calls[q].created \notin Range(QuotationsOf(files'))
  /\ (calls[p].pc = "wroteQuotations" /\ calls'[p].pc = "done") =>
       /\ ItemsOfQuotation(files', calls[p].created.id) # <<>>
       /\ (calls[q].pc = "done" /\ "created" \in DOMAIN calls[q]
             /\ \A item \in Range(calls[p].existingItems) :
                  item.quotation_id # calls[q].created.id) =>
            ItemsOfQuotation(files', calls[q].created.id) = <<>>
  /\ (calls[p].pc = "readVendors" /\ calls'[p].pc = "done" /\ calls'[p].wrote) =>
       /\ calls[p].op = "createVendor" => calls'[p].result \in Range(VendorsOf(files'))
       /\ calls[p].op = "deleteVendor" => calls'[p].result = TRUE
       /\ (WroteVendors(q) /\ calls[q].op = "createVendor"
             /\ calls[q].result \notin Range(calls[p].vendors)) =>
            calls[q].result \notin Range(VendorsOf(files'))
       /\ (WroteVendors(q) /\ calls[q].op = "deleteVendor"
             /\ calls[q].arg \in Ids(calls[p].vendors)
             /\ ~(calls[p].op = "deleteVendor" /\ calls[p].arg = calls[q].arg)) =>
            calls[q].arg \in Ids(VendorsOf(files'))

C23_LastWriterStep == \A p, q \in Flows : p # q => C23_Overwrite(p, q)

C23_LastWriterWins == [][C23_LastWriterStep]_vars

\* Both createQuotation calls have returned a quotation; only the one of the later
\* writer is stored, with its items.
C23_Witness ==
  \E p, q \in Flows :
    /\ calls[p].pc = "done" /\ "created" \in DOMAIN calls[p]
    /\ calls[q].pc = "done" /\ "created" \in DOMAIN calls[q]
    /\ calls[q].created \notin Range(calls[p].quotations)
    /\ calls[p].created \in Range(QuotationsOf(files))
    /\ calls[q].created \notin Range(QuotationsOf(files))
    /\ ItemsOfQuotation(files, calls[p].created.id) # <<>>
    /\ ItemsOfQuotation(files, calls[q].created.id) = <<>>



(***************************************************************************)
(* C24: in the overview report the quotationCount of a bucket is the       *)
(* number of filtered quotations holding at least one item of the bucket:  *)
(* several items of one type in a quotation count once, items of k types   *)
(* count once in each of the k buckets.                                    *)
(***************************************************************************)
FilteredFor(arg) ==
  ReportsIndex_filteredQuotations(getQuotations(files), arg.startDate, arg.endDate,
                                  arg.statusFilter)

\* The filtered quotations holding an item of the bucket.
Holding(filtered, bucketId) ==
  { i \in 1..Len(filtered) :
      \E item \in Range(filtered[i].quotation_items) : ReportsIndex_typeId(item) = bucketId }

C24_CountsQuotationsOncePerType ==
  RenderedReport =>
    \A bucket \in Range(last.ret.reportData) :
      bucket.quotationCount = Cardinality(Holding(FilteredFor(last.arg), bucket.id))

\* One quotation with two items of one type and one with items of two types: the
\* first type's bucket counts both quotations, the other bucket one.
C24_Witness ==
  /\ RenderedReport
  /\ Len(FilteredFor(last.arg)) = 2
  /\ \E q, r \in Range(FilteredFor(last.arg)) :
       /\ Len(q.quotation_items) = 2
       /\ ReportsIndex_typeId(q.quotation_items[1]) = ReportsIndex_typeId(q.quotation_items[2])
       /\ Len(r.quotation_items) = 2
       /\ ReportsIndex_typeId(r.quotation_items[1]) # ReportsIndex_typeId(r.quotation_items[2])
       /\ ReportsIndex_typeId(r.quotation_items[1]) = ReportsIndex_typeId(q.quotation_items[1])
  /\ \E a, b \in Range(last.ret.reportData) : a.quotationCount = 2 /\ b.quotationCount = 1


(***************************************************************************)
(* C25 as stated: the overview report holds exactly the buckets for which  *)
(* it is not the case that quantity = 0 and totalAmount = 0, a bucket with *)
(* non-zero sums that are not positive included, and the buckets are in    *)
(* order of non-increasing totalAmount.                                    *)
(***************************************************************************)
\* Every bucket of typeStats before the filter.
AllBuckets(arg) ==
  LET filtered == FilteredFor(arg)
      keys == ReportsIndex_bucketKeys(filtered, arg.itemTypes)
  IN { ReportsIndex_typeStats(keys[i], filtered, arg.itemTypes) : i \in 1..Len(keys) }

NonIncreasingAmounts(reportData) ==
  \A i \in 1..(Len(reportData) - 1) : reportData[i].totalAmount >= reportData[i + 1].totalAmount

C25_KeepsEveryNonZeroBucket ==
  RenderedReport =>
    /\ Range(last.ret.reportData) =
         { bucket \in AllBuckets(last.arg) : ~(bucket.quantity = 0 /\ bucket.totalAmount = 0) }
    /\ Len(last.ret.reportData) = Cardinality(Range(last.ret.reportData))
    /\ NonIncreasingAmounts(last.ret.reportData)

\* A bucket whose quantity is -1 and whose amount is -100 is missing from the report,
\* next to a bucket that is shown.
C25_Witness ==
  /\ RenderedReport
  /\ \E bucket \in AllBuckets(last.arg) :
       /\ bucket.quantity = 0 - 1 /\ bucket.totalAmount = 0 - 100
       /\ bucket \notin Range(last.ret.reportData)
  /\ Len(last.ret.reportData) = 1
  /\ last.ret.reportData[1].quantity > 0


(***************************************************************************)
(* C26: after any sequence of completed createQuotation, updateQuotation   *)
(* and deleteQuotation calls on an empty store, every stored item refers   *)
(* to exactly one stored quotation and no two stored records share an id.  *)
(***************************************************************************)
OwnersOf(fs, item) ==
  { i \in 1..Len(QuotationsOf(fs)) : QuotationsOf(fs)[i].id = item.quotation_id }

C26_ReferentialIntegrity ==
  /\ \A item \in Range(ItemsOf(files)) : Cardinality(OwnersOf(files, item)) = 1
  /\ Cardinality(Ids(ItemsOf(files))) = Len(ItemsOf(files))
  /\ Cardinality(Ids(QuotationsOf(files))) = Len(QuotationsOf(files))

\* A quotation with items was deleted while another quotation, whose item was
\* replaced by an update, is still stored with that item.
C26_Witness ==
  /\ last.op = "deleteQuotation"
  /\ last.ret = TRUE
  /\ ItemsOfQuotation(last.pre, last.arg) # <<>>
  /\ Len(QuotationsOf(files)) = 1
  /\ Len(ItemsOf(files)) = 1
  /\ ItemsOf(files)[1].quantity = 1
  /\ ItemsOf(files)[1].quotation_id = QuotationsOf(files)[1].id


(***************************************************************************)
(* C27: when a creator's read of a collection fails while its write        *)
(* succeeds, the collection afterwards holds only the record(s) the call   *)
(* created, every record stored before is gone, and the call returns the   *)
(* new record as on success.                                               *)
(***************************************************************************)
SimpleCreators ==
  {"createVendor", "createRecipient", "createCategory", "createItemType",
   "createExchangeRate", "addVendorDocument"}

CreatorFile(op) ==
  CASE op = "createVendor" -> "vendors.json"
    [] op = "createRecipient" -> "recipients.json"
    [] op = "createCategory" -> "categories.json"
    [] op = "createItemType" -> "item_types.json"
    [] op = "createExchangeRate" -> "exchange_rates.json"
    [] op = "addVendorDocument" -> "vendor_documents.json"

ReadFaultOnly(filename) == FailsToRead(filename) /\ filename \notin env.unwritable

C27_FaultedReadLosesRecords ==
  /\ (last.op \in SimpleCreators /\ ReadFaultOnly(CreatorFile(last.op))) =>
       /\ files[CreatorFile(last.op)] = <<last.ret>>
       /\ last.ret.id \notin Ids(last.pre[CreatorFile(last.op)])
  /\ (last.op = "createQuotation" /\ ReadFaultOnly("quotations.json")) =>
       /\ QuotationsOf(files) = <<last.ret>>
       /\ last.ret.id \notin Ids(QuotationsOf(last.pre))
  /\ (last.op = "createQuotation" /\ ReadFaultOnly("quotation_items.json")) =>
       /\ ItemsOf(files) = ItemsOfQuotation(files, last.ret.id)
       /\ ItemsOf(files) # <<>>
       /\ last.ret \in Range(QuotationsOf(files))

\* The vendor stored before the call is gone: the file holds only the vendor the
\* call returned, under a new id and the same name.
C27_Witness ==
  /\ last.op = "createVendor"
  /\ ReadFaultOnly("vendors.json")
  /\ Len(last.pre["vendors.json"]) = 1
  /\ last.pre["vendors.json"][1].name = last.ret.name
  /\ last.pre["vendors.json"][1].id # last.ret.id
  /\ files["vendors.json"] = <<last.ret>>


(***************************************************************************)
(* C28: what a mutating operation returns is the same whether or not its   *)
(* writes were stored: createQuotation returns the new quotation,          *)
(* updateQuotation of a stored id the merged record, deleteQuotation of a  *)
(* stored id true, and importData of a bundle with the required keys       *)
(* success = true, also when writeData answered false.                     *)
(***************************************************************************)
StoredBefore(id) == Find(QuotationsOf(last.pre), LAMBDA q : q.id = id)

\* The stored record with the fields of updates put over it.
MergedRecord(updates, record) ==
  [key \in DOMAIN record \cup DOMAIN updates |->
     IF key \in DOMAIN updates THEN updates[key] ELSE record[key]]

HasRequiredKeys(data) == \A key \in Range(RequiredKeys) : key \in DOMAIN data

\* Some write of the last call was refused.
WriteRefused == \E filename \in Range(last.writes) : filename \in env.unwritable

C28_ReturnIgnoresWrites ==
  /\ last.op = "createQuotation" =>
       /\ last.ret.id \notin Ids(QuotationsOf(last.pre))
       /\ last.ret = MergedRecord([id |-> last.ret.id], RacePayload(RaceForm, last.arg))
  /\ (last.op = "updateQuotation" /\ last.arg.id \in Ids(QuotationsOf(last.pre))) =>
       last.ret = MergedRecord(last.arg.updates, StoredBefore(last.arg.id))
  /\ (last.op = "deleteQuotation" /\ last.arg \in Ids(QuotationsOf(last.pre))) =>
       last.ret = TRUE
  /\ (last.op = "importData" /\ HasRequiredKeys(last.arg)) => last.ret.success = TRUE

\* deleteQuotation has returned true; the quotations write was refused and the items
\* write was stored: the quotation is still there, its items are gone.
C28_Witness ==
  /\ last.op = "deleteQuotation"
  /\ last.ret = TRUE
  /\ WriteRefused
  /\ QuotationsOf(files) = QuotationsOf(last.pre)
  /\ last.arg \in Ids(QuotationsOf(files))
  /\ ItemsOfQuotation(last.pre, last.arg) # <<>>
  /\ ItemsOfQuotation(files, last.arg) = <<>>


(***************************************************************************)
(* C29: for a selected type id that has a bucket in the overview report,   *)
(* the rows of the drill-down add up to the bucket's quantity and          *)
(* totalAmount, the chart entries add up to the same two sums, and there   *)
(* are as many chart entries as the bucket's quotationCount.               *)
(***************************************************************************)
RenderedDetail == last.op = "ReportsIndex.itemTypeDetail"

NoUsableRate(fs) ==
  \/ getLatestExchangeRate(fs) = <<>>
  \/ getLatestExchangeRate(fs)[1].rate = 0

UnconvertedProfit(fs) ==
  LET invoiced == SelectSeq(QuotationsOf(fs), LAMBDA q : q.status = "invoiced")
  IN SumSeq([i \in 1..Len(invoiced) |->
               SubtotalOf(fs, invoiced[i].id) - invoiced[i].discount
                 - invoiced[i].vendor_cost])

C30_ProfitUnconvertedWithoutRate ==
  RenderedDashboard /\ NoUsableRate(files) =>
    /\ last.ret \in Int
    /\ last.ret = UnconvertedProfit(files)

\* The only rate record holds 0; an invoiced quotation of 300 USD with a vendor cost
\* of 100 IQD and an invoiced quotation all in IQD give 200 + 200.
C30_Witness ==
  /\ RenderedDashboard
  /\ Len(RatesOf(files)) = 1 /\ RatesOf(files)[1].rate = 0
  /\ Len(QuotationsOf(files)) = 2
  /\ \E i, j \in 1..2 :
       /\ QuotationsOf(files)[i].status = "invoiced"
       /\ QuotationsOf(files)[i].currency_type = "usd"
       /\ QuotationsOf(files)[i].vendor_currency_type = "iqd"
       /\ QuotationsOf(files)[j].status = "invoiced"
       /\ QuotationsOf(files)[j].currency_type = "iqd"
  /\ last.ret = 400

====
